---- MODULE Spec2Model ----
(***************************************************************************)
(* Workout ingestion and metric derivation of adomasgaudi/monty:           *)
(*   crawler1.py            paginating fetch loop, flattening, table        *)
(*   sl_analyser/utils.py   fetch_workout_data (barebones.py is a copy)     *)
(*   sl_analyser/pure.py    flatten_workouts (notsimple/simple/pure2 copy)  *)
(*   sl_analyser/py_html.py flatten_workouts                                *)
(*   sl_analyser/main.py    enrichment chain and create_workout_df          *)
(* One run of one script is one behaviour: prog names the script.          *)
(***************************************************************************)
EXTENDS Integers, Sequences, FiniteSets, TLC

VARIABLES
    prog,       \* the script this run executes
    backend,    \* the workouts API the run talks to (environment)
    pc,         \* position of the script
    offset,     \* offset of the next page request
    fetched,    \* crawler1: workouts counted so far
    iter,       \* utils: pages started by `for _ in range(MAX_PAGES)`
    resp,       \* outcome of the page request just issued
    rows,       \* crawler1 rows / utils workout_sets / flatten_workouts result
    msgs,       \* st.error / st.warning messages shown
    df,         \* the table handed to the display step
    raw_data,   \* main.py: the batch being enriched in place
    requests,   \* history: one entry per page request issued
    call,       \* a helper of main.py called on its own: arguments, results
    page,       \* the profile page handed to a resolver called on its own
    resolved,   \* outcome of the resolver: the account id or the failure
    session     \* crawler1.py reruns: st.session_state and what each run did

vars == <<prog, backend, pc, offset, fetched, iter, resp, rows, msgs, df,
          raw_data, requests, call, page, resolved, session>>

----------------------------------------------------------------------------
(* Python values.  A dict field holds a tagged value; Absent is a key the  *)
(* dict does not have, None is JSON null.                                  *)

None == <<"none">>

Absent == <<"absent">>

Num(n) == <<"num", n>>

Str(s) == <<"str", s>>

Bool(b) == <<"bool", b>>

\* dict.get(key)
Get(v) == IF v = Absent THEN None ELSE v

\* dict.get(key, default)
GetD(v, d) == IF v = Absent THEN d ELSE v

\* Python truth value: None, 0, "" and False are false
Truthy(v) ==
    CASE v[1] = "none"   -> FALSE
      [] v[1] = "absent" -> FALSE
      [] v[1] = "num"    -> v[2] # 0
      [] v[1] = "str"    -> v[2] # ""
      [] v[1] = "bool"   -> v[2]

\* pandas missing value: None and NaN alike
IsNa(v) == v[1] \in {"none", "absent"}

Min(a, b) == IF a < b THEN a ELSE b

----------------------------------------------------------------------------
(* Program constants and model bounds.                                     *)

limit == 200

FETCH_LIMIT == 200

PURE_LIMIT == 1000

MAX_PAGES == 999

\* full pages a backend holds at most
MaxPages == 2

\* page requests of one run that the history records; a backend of
\* MaxPages full pages and a remainder is exhausted after MaxPages + 2
MaxRequests == MaxPages + 3

\* offsets from MaxOffset on are past every record of every backend: the
\* answer to them no longer depends on the offset, and the model keeps
\* one representative for all of them
MaxOffset == MaxRequests * limit

Bounded(off) == Min(off, MaxOffset)

\* sizes of the last, partial page of a backend
Remainders == {0, 1, 73, 199}

----------------------------------------------------------------------------
(* Workout records as the API returns them.  Weights are in hundredths of  *)
(* a kilogram, fractions in hundredths.                                    *)

Kg(k) == Num(k * 100)

\* a / b rounded to the nearest integer, ties to even (b > 0)
RoundDiv(a, b) ==
    LET q == a \div b
        r == a % b
    IN IF 2 * r < b THEN q
       ELSE IF 2 * r > b THEN q + 1
       ELSE IF q % 2 = 0 THEN q ELSE q + 1

\* rir and the fields main.py adds later are keys the API does not send
SetRec(w, r, n, t, d) ==
    [weight |-> w, reps |-> r, notes |-> n, dropset |-> Bool(FALSE),
     percentile |-> Num(50), time |-> t, distance |-> d, rir |-> Absent,
     one_rep_max |-> Absent, RIR |-> Absent, max_reps |-> Absent]

Heavy == SetRec(Kg(100), Num(5), Str(""), Absent, Absent)

Light == SetRec(Kg(60), Num(10), Str("easy"), Absent, Absent)

NoWeight == SetRec(None, Num(8), None, Absent, Absent)

NoReps == SetRec(Kg(100), None, Str(""), Absent, Absent)

Timed == SetRec(Kg(120), Num(10), Str(""), Num(60), Absent)

TimedZero == SetRec(Kg(120), Num(10), Str(""), Num(0), None)

Run == SetRec(None, None, Str(""), Absent, Num(5000))

DistanceEmpty == SetRec(Kg(120), Num(3), Str(""), None, Str(""))

BodyOnly == SetRec(Kg(0), Num(8), Str(""), Absent, Absent)

NoWeight5 == SetRec(None, Num(5), Str(""), Absent, Absent)

ZeroReps == SetRec(Kg(100), Num(0), Str(""), Absent, Absent)

Double == SetRec(Kg(110), Num(2), Str(""), Absent, Absent)

\* 2.5 kg and 0.05 kg hung on the body
Small == SetRec(Num(250), Num(1), Str(""), Absent, Absent)

Tiny == SetRec(Num(5), Num(1), Str(""), Absent, Absent)

\* a 2.5 kg plate pressed three times
Plate == SetRec(Num(250), Num(3), Str(""), Absent, Absent)

Ex(name, sets) ==
    [exercise_name |-> name, sets |-> sets,
     bodyweight_p |-> Absent, bodyweight_load |-> Absent,
     equipment_weight |-> Absent, internal_load |-> Absent,
     one_rep_max |-> Absent, volume_raw |-> Absent,
     volume_relative |-> Absent, volume_heavy |-> Absent]

Day(d, bw, exs) == [id |-> Num(0), date |-> d, bodyweight |-> bw, exercises |-> exs]

Shapes ==
    << Day(Str("2024-03-01"), Kg(80), <<>>),
       Day(Str("2024-03-02"), Kg(80), << Ex(Str("Squat"), <<>>) >>),
       Day(Str("2024-03-03"), Kg(80),
           << Ex(Str("Bench Press"), <<Heavy, Light>>),
              Ex(Str("Pull Ups"), <<NoWeight>>) >>),
       Day(Str("2024-03-04"), None,
           << Ex(Str("Squat"), <<Light, NoReps>>),
              Ex(Str("Hanging Knee Raise"), <<>>),
              Ex(Str("Zercher Carry"), <<NoReps>>) >>),
       Day(Str("2024-03-05"), Kg(75),
           << Ex(Str("Squat"), <<Light, Timed, Run>>) >>),
       Day(Str("2024-03-06"), Kg(75),
           << Ex(Str("Deadlift"), <<TimedZero, DistanceEmpty, Heavy>>) >>),
       Day(Str("2024-03-07"), Kg(80),
           << Ex(Str("Pull Ups"), <<BodyOnly>>) >>),
       Day(Str("2024-03-08"), Kg(80),
           << Ex(Str("bench press"), <<Heavy>>),
              Ex(Str("BENCH PRESS "), <<Heavy>>),
              Ex(Str("squat "), <<Light>>),
              Ex(Str("Squat"), <<ZeroReps, Light, BodyOnly>>) >>),
       Day(Str("2024-03-09"), Kg(80),
           << Ex(Str("Bench Press"), <<Heavy, NoWeight5, NoReps>>),
              Ex(Str("Hanging Knee Raise"), <<Light>>),
              Ex(Str("Zercher Carry"), <<Light>>),
              Ex(Str("Deadlift"), <<Double, Heavy, Light>>),
              Ex(Str("Pull Ups"), <<Small, NoWeight>>),
              Ex(Str("Pull Ups"), <<Tiny>>),
              Ex(Str("Bench Press"), <<Plate>>) >>) >>

NumShapes == Len(Shapes)

\* the id-th workout of the account; seed rotates the shapes
ShapeIndex(seed, id) == ((id - 1 + seed) % NumShapes) + 1

Workout(seed, id) == [Shapes[ShapeIndex(seed, id)] EXCEPT !.id = Num(id)]

----------------------------------------------------------------------------
(* The workouts API.  A "store" holds n workouts and answers a request     *)
(* (offset, limit) with the slice [offset, offset + limit); an "echo"      *)
(* answers an out-of-range offset with its last full page again.  A page   *)
(* is the range lo+1 .. hi of workout ids.                                 *)

StoreSizes == { p * limit + r : p \in 0 .. MaxPages, r \in Remainders }

\* a store of NumShapes workouts or more holds every shape whatever its
\* seed; the seed is varied for the smaller ones
Backends ==
    {b \in [kind : {"store"}, n : StoreSizes, seed : 0 .. NumShapes - 1] :
        b.n >= NumShapes => b.seed = 0}
    \cup [kind : {"echo"}, n : { p * limit : p \in 1 .. MaxPages }, seed : {0}]

Respond(b, off, lim) ==
    IF off < b.n THEN [lo |-> off, hi |-> Min(off + lim, b.n)]
    ELSE IF b.kind = "echo"
         THEN [lo |-> ((b.n \div lim) - 1) * lim, hi |-> (b.n \div lim) * lim]
         ELSE [lo |-> off, hi |-> off]

Outcomes == {"ok", "neterr", "nonjson"}

NoResp == [kind |-> "none", lo |-> 0, hi |-> 0]

\* len(payload.get("data", []))
PageLen(r) == r.hi - r.lo

----------------------------------------------------------------------------
(* crawler1.py: flattening inside the fetch loop.                          *)

Row(w, name, weight, reps, notes, dropset, percentile) ==
    [workout_id |-> Get(w.id), date |-> Get(w.date),
     bodyweight |-> Get(w.bodyweight), exercise |-> name,
     weight |-> weight, reps |-> reps, notes |-> notes,
     dropset |-> dropset, percentile |-> percentile]

PlaceholderRow(w, name) ==
    Row(w, name, None, None, Str(""), Bool(FALSE), None)

\* pure.py keeps an exercise's sets only: nothing for an empty set list
ExerciseRows_SetsOnly(w, ex) ==
    [k \in 1 .. Len(ex.sets) |->
        [workout_id |-> Get(w.id), date |-> Get(w.date),
         bodyweight |-> Get(w.bodyweight),
         exercise |-> GetD(ex.exercise_name, Str("")),
         weight |-> Get(ex.sets[k].weight), reps |-> Get(ex.sets[k].reps),
         notes |-> Get(ex.sets[k].notes),
         dropset |-> GetD(ex.sets[k].dropset, Bool(FALSE)),
         percentile |-> Get(ex.sets[k].percentile)]]

SetRow(w, name, s) ==
    Row(w, name, Get(s.weight), Get(s.reps), Get(s.notes),
        GetD(s.dropset, Bool(FALSE)), Get(s.percentile))

ExerciseRows(w, ex) ==
    IF ex.sets # <<>>
    THEN [k \in 1 .. Len(ex.sets) |-> SetRow(w, GetD(ex.exercise_name, Str("")), ex.sets[k])]
    ELSE << PlaceholderRow(w, GetD(ex.exercise_name, Str(""))) >>

RECURSIVE ExercisesRows(_, _, _)
ExercisesRows(w, exs, i) ==
    IF i > Len(exs) THEN <<>>
    ELSE ExerciseRows(w, exs[i]) \o ExercisesRows(w, exs, i + 1)

WorkoutRows(w) ==
    IF w.exercises = <<>>
    THEN << PlaceholderRow(w, Str("")) >>
    ELSE ExercisesRows(w, w.exercises, 1)

\* rows of the page of workouts a .. b (`for w in data`), by halves so
\* that a page of 200 stays shallow
RECURSIVE PageRows(_, _, _)

\* variant: the workouts of a page are emitted last to first
PageRows_NewestFirst(seed, a, b) ==
    IF a > b THEN <<>>
    ELSE IF a = b THEN WorkoutRows(Workout(seed, a))
    ELSE LET m == (a + b) \div 2
         IN PageRows(seed, m + 1, b) \o PageRows(seed, a, m)

PageRows(seed, a, b) ==
    IF a > b THEN <<>>
    ELSE IF a = b THEN WorkoutRows(Workout(seed, a))
    ELSE LET m == (a + b) \div 2
         IN PageRows(seed, a, m) \o PageRows(seed, m + 1, b)

----------------------------------------------------------------------------
(* crawler1.py: the pagination loop.                                       *)

\* `break` leaves the loop for the code after it
Break == "after"

\* `if not data: break`
EmptyPage(n) == n = 0

ShortPage_Never(n) == FALSE

AfterEmptyPage_Continue == "request"

\* where `if not data: break` goes
AfterEmptyPage == Break

\* `if len(data) < limit: break`
ShortPage(n) == n < limit

AfterFailedPage_Retry == "request"

\* where the `break` of the two except clauses goes
AfterFailedPage == Break

NextOffset_Twice(off) == off + limit + limit

\* `offset += limit`
NextOffset(off) == off + limit


Caught_NetworkOnly == {"neterr"}

\* `except requests.RequestException` and `except ValueError`
Caught == {"neterr", "nonjson"}

\* rows are accumulated for the pages below MaxOffset
Recording == offset < MaxOffset

\* the history keeps the first MaxRequests requests
Log(off, lim, kind, size) ==
    IF Len(requests) < MaxRequests
    THEN Append(requests, [offset |-> off, limit |-> lim, kind |-> kind, size |-> size])
    ELSE requests

\* requests.get(api, params, ...), raise_for_status(), resp.json()
CrawlerRequest ==
    /\ prog = "crawler1"
    /\ pc = "request"
    /\ \E kind \in Outcomes :
         LET r == Respond(backend, offset, limit) IN
         /\ resp' = [kind |-> kind, lo |-> r.lo, hi |-> IF kind = "ok" THEN r.hi ELSE r.lo]
         /\ requests' = Log(offset, limit, kind, IF kind = "ok" THEN r.hi - r.lo ELSE 0)
    /\ pc' = "process"
    /\ UNCHANGED <<page, resolved, session, call, prog, backend, offset, fetched, iter, rows, msgs, df, raw_data>>

\* the rest of one loop iteration
CrawlerProcess ==
    /\ prog = "crawler1"
    /\ pc = "process"
    /\ resp' = NoResp
    /\ IF resp.kind # "ok" /\ resp.kind \notin Caught
       THEN /\ pc' = "raised"
            /\ UNCHANGED <<rows, fetched, offset, msgs>>
       ELSE IF resp.kind = "neterr"
       THEN /\ msgs' = Append(msgs, "API request failed")
            /\ pc' = AfterFailedPage
            /\ UNCHANGED <<rows, fetched, offset>>
       ELSE IF resp.kind = "nonjson"
       THEN /\ msgs' = Append(msgs, "Non-JSON response")
            /\ pc' = AfterFailedPage
            /\ UNCHANGED <<rows, fetched, offset>>
       ELSE IF EmptyPage(PageLen(resp))
       THEN /\ pc' = AfterEmptyPage
            /\ UNCHANGED <<rows, fetched, offset, msgs>>
       ELSE /\ rows' = IF Recording
                       THEN rows \o PageRows(backend.seed, resp.lo + 1, resp.hi)
                       ELSE rows
            /\ fetched' = IF Recording THEN fetched + PageLen(resp) ELSE fetched
            /\ offset' = Bounded(NextOffset(offset))
            /\ pc' = IF ShortPage(PageLen(resp)) THEN Break ELSE "request"
            /\ UNCHANGED msgs
    /\ UNCHANGED <<page, resolved, session, call, prog, backend, iter, df, raw_data, requests>>

----------------------------------------------------------------------------
(* crawler1.py: the table built from the rows.                             *)

\* str.strip().lower() on the exercise names that occur
Lower(s) ==
    CASE s = "Squat" -> "squat"
      [] s = "Bench Press" -> "bench press"
      [] s = "BENCH PRESS " -> "bench press"
      [] s = "squat " -> "squat"
      [] s = "Pull Ups" -> "pull ups"
      [] s = "Hanging Knee Raise" -> "hanging knee raise"
      [] s = "Deadlift" -> "deadlift"
      [] s = "Zercher Carry" -> "zercher carry"
      [] OTHER -> s

\* _norm: (s or "").strip().lower()
Norm(v) == IF Truthy(v) THEN Lower(v[2]) ELSE ""

\* _BW_KEYMAP.get(key), fractions in hundredths
BW_KEYMAP(key) ==
    CASE key = "squat" -> Num(60)
      [] key = "bench press" -> Num(0)
      [] key = "pull ups" -> Num(100)
      [] key = "deadlift" -> Num(20)
      [] key = "hanging knee raise" -> None
      [] OTHER -> None

\* pd.to_datetime(errors="coerce").dt.strftime("%b-%d").fillna(original)
DateLabel(v) ==
    CASE v = Str("2024-03-01") -> Str("Mar-01")
      [] v = Str("2024-03-02") -> Str("Mar-02")
      [] v = Str("2024-03-03") -> Str("Mar-03")
      [] v = Str("2024-03-04") -> Str("Mar-04")
      [] v = Str("2024-03-05") -> Str("Mar-05")
      [] v = Str("2024-03-06") -> Str("Mar-06")
      [] v = Str("2024-03-07") -> Str("Mar-07")
      [] v = Str("2024-03-08") -> Str("Mar-08")
      [] v = Str("2024-03-09") -> Str("Mar-09")
      [] OTHER -> v

\* df["bodyweight"] * df["bw_pct"]: missing when either is; the product of
\* hundredths of a kilogram and hundredths is exact for the bodyweights
\* that occur (whole kilograms)
InternalWeight(bw, pct) ==
    IF IsNa(bw) \/ IsNa(pct) THEN None ELSE Num((bw[2] * pct[2]) \div 100)

\* est_1rm_epley3(reps, wi, x) followed by .round(1): hundredths of a
\* kilogram, so one decimal is a multiple of 10
est_1rm_epley3(reps, wi, x) ==
    IF IsNa(reps) \/ reps[2] <= 0 THEN None
    ELSE IF IsNa(wi) THEN None
    ELSE LET xx == IF IsNa(x) THEN 0 ELSE x[2]
         IN Num(10 * RoundDiv((reps[2] + 29) * 333 * (xx + wi[2]) - 10000 * wi[2], 100000))

\* one row of the displayed table: workout_id dropped, columns added
TableRow(r) ==
    LET pct == BW_KEYMAP(Norm(r.exercise))
        iw == InternalWeight(r.bodyweight, pct)
    IN [date |-> DateLabel(r.date), bodyweight |-> r.bodyweight, bw_pct |-> pct,
        internal_weight |-> iw, exercise |-> r.exercise, weight |-> r.weight,
        reps |-> r.reps, est_1RM |-> est_1rm_epley3(r.reps, iw, r.weight),
        notes |-> r.notes, dropset |-> r.dropset, percentile |-> r.percentile]

\* after the loop: `if not rows: st.warning(...); st.stop()`, else the table
CrawlerFinish ==
    /\ prog = "crawler1"
    /\ pc = "after"
    /\ IF rows = <<>>
       THEN /\ msgs' = Append(msgs, "No rows parsed.")
            /\ pc' = "stopped"
            /\ UNCHANGED df
       ELSE /\ df' = [i \in 1 .. Len(rows) |-> TableRow(rows[i])]
            /\ pc' = "displayed"
            /\ UNCHANGED msgs
    /\ UNCHANGED <<page, resolved, session, call, prog, backend, offset, fetched, iter, resp, rows, raw_data, requests>>

----------------------------------------------------------------------------
(* utils.py (and barebones.py): fetch_workout_data.                        *)

\* datetime.strptime(d, "%Y-%m-%d").strftime("%b-%d") on the dates that occur
format_date(v) == DateLabel(v)

\* `if not set_info.get("time") and not set_info.get("distance")`
StrengthSet(s) == ~Truthy(Get(s.time)) /\ ~Truthy(Get(s.distance))

UtilsSetRow(w, ex, s) ==
    [date |-> format_date(w.date), exercise |-> ex.exercise_name,
     weight |-> Get(s.weight), Reps |-> Get(s.reps)]

RECURSIVE UtilsSetRows(_, _, _)
UtilsSetRows(w, ex, k) ==
    IF k > Len(ex.sets) THEN <<>>
    ELSE (IF StrengthSet(ex.sets[k]) THEN << UtilsSetRow(w, ex, ex.sets[k]) >> ELSE <<>>)
         \o UtilsSetRows(w, ex, k + 1)

RECURSIVE UtilsExercisesRows(_, _)
UtilsExercisesRows(w, e) ==
    IF e > Len(w.exercises) THEN <<>>
    ELSE UtilsSetRows(w, w.exercises[e], 1) \o UtilsExercisesRows(w, e + 1)

RECURSIVE UtilsPageRows(_, _, _)
UtilsPageRows(seed, a, b) ==
    IF a > b THEN <<>>
    ELSE IF a = b THEN UtilsExercisesRows(Workout(seed, a), 1)
    ELSE LET m == (a + b) \div 2
         IN UtilsPageRows(seed, a, m) \o UtilsPageRows(seed, m + 1, b)

\* session.get(...).json(): nothing catches a failure
UtilsRequest ==
    /\ prog = "utils"
    /\ pc = "request"
    /\ iter < MAX_PAGES
    /\ iter' = iter + 1
    /\ \E kind \in Outcomes :
         LET r == Respond(backend, offset, FETCH_LIMIT) IN
         /\ resp' = [kind |-> kind, lo |-> r.lo, hi |-> IF kind = "ok" THEN r.hi ELSE r.lo]
         /\ requests' = Log(offset, FETCH_LIMIT, kind, IF kind = "ok" THEN r.hi - r.lo ELSE 0)
    /\ pc' = "process"
    /\ UNCHANGED <<page, resolved, session, call, prog, backend, offset, fetched, rows, msgs, df, raw_data>>

\* the rest of one iteration; the for loop ends after MAX_PAGES pages
UtilsProcess ==
    /\ prog = "utils"
    /\ pc = "process"
    /\ resp' = NoResp
    /\ IF resp.kind # "ok"
       THEN /\ pc' = "raised"
            /\ UNCHANGED <<rows, offset>>
       ELSE IF PageLen(resp) = 0
       THEN /\ pc' = Break
            /\ UNCHANGED <<rows, offset>>
       ELSE /\ rows' = IF Recording
                       THEN rows \o UtilsPageRows(backend.seed, resp.lo + 1, resp.hi)
                       ELSE rows
            /\ offset' = Bounded(offset + FETCH_LIMIT)
            /\ pc' = IF iter < MAX_PAGES THEN "request" ELSE Break
    /\ UNCHANGED <<page, resolved, session, call, prog, backend, fetched, iter, msgs, df, raw_data, requests>>

\* progress.empty(); return pd.json_normalize(workout_sets)
UtilsReturn ==
    /\ prog = "utils"
    /\ pc = "after"
    /\ df' = rows
    /\ pc' = "returned"
    /\ UNCHANGED <<page, resolved, session, call, prog, backend, offset, fetched, iter, resp, rows, msgs, raw_data, requests>>

----------------------------------------------------------------------------
(* pure.py (simple.py and pure2.py hold copies), notsimple.py and          *)
(* py_html.py: one request for up to 1000 workouts, then flatten_workouts  *)
(* and the table.                                                          *)

\* payload.get("data", [])
Data(b, r) == [i \in 1 .. PageLen(r) |-> Workout(b.seed, r.lo + i)]

\* what the script shows for a failed request.  py_html.py prints
\* "Error: ..." and exits.  safe_fetch_rows of notsimple.py tries
\* RequestException before ValueError: a body that is not JSON raises a
\* ValueError that newer versions of requests also derive from
\* RequestException, so either message can be the one shown
FetchErrors(p, kind) ==
    IF p = "py_html" THEN {"Error"}
    ELSE IF kind = "neterr" THEN {"Network error"}
    ELSE {"Network error", "ValueError"}

NoRowsMessage(p) ==
    CASE p = "pure" -> "No rows found."
      [] p = "notsimple" -> "No workouts found."
      [] OTHER -> "No data found."

\* the caller of safe_fetch_rows on the result ([], err): `if err:` shows
\* the error, else `if not rows:` shows the message for no data
ShownOnFailure(p, err) == IF err # "" THEN err ELSE NoRowsMessage(p)

\* fetch_workouts_payload: requests.get, raise_for_status, json.  main() of
\* py_html.py and safe_fetch_rows of notsimple.py catch a failure and the
\* script reports it and stops; pure.py does not
PureFetch ==
    /\ prog \in {"pure", "py_html", "notsimple"}
    /\ pc = "request"
    /\ \E kind \in Outcomes :
         LET r == Respond(backend, 0, PURE_LIMIT) IN
         /\ resp' = [kind |-> kind, lo |-> r.lo, hi |-> IF kind = "ok" THEN r.hi ELSE r.lo]
         /\ requests' = Log(0, PURE_LIMIT, kind, IF kind = "ok" THEN r.hi - r.lo ELSE 0)
         /\ pc' = IF kind = "ok" THEN "flatten"
                  ELSE IF prog = "pure" THEN "raised" ELSE "stopped"
         /\ IF kind # "ok" /\ prog # "pure"
            THEN \E m \in FetchErrors(prog, kind) :
                    msgs' = Append(msgs, IF prog = "notsimple"
                                         THEN ShownOnFailure(prog, m) ELSE m)
            ELSE msgs' = msgs
    /\ UNCHANGED <<page, resolved, session, call, prog, backend, offset, fetched, iter, rows, df, raw_data>>

PureSetRow(w, ex, s) ==
    [date |-> Get(w.date), bodyweight |-> Get(w.bodyweight),
     exercise |-> GetD(ex.exercise_name, Str("")), weight |-> Get(s.weight),
     reps |-> Get(s.reps), rir |-> Get(s.rir), notes |-> Get(s.notes)]

\* `for s in (ex.get("sets") or [])`
PureExerciseRows(w, ex) ==
    [k \in 1 .. Len(ex.sets) |-> PureSetRow(w, ex, ex.sets[k])]

RECURSIVE PureExercisesRows(_, _)
PureExercisesRows(w, e) ==
    IF e > Len(w.exercises) THEN <<>>
    ELSE PureExerciseRows(w, w.exercises[e]) \o PureExercisesRows(w, e + 1)

\* pure.flatten_workouts over data[a..b]
RECURSIVE flatten_workouts(_, _, _)
flatten_workouts(seed, a, b) ==
    IF a > b THEN <<>>
    ELSE IF a = b THEN PureExercisesRows(Workout(seed, a), 1)
    ELSE LET m == (a + b) \div 2
         IN flatten_workouts(seed, a, m) \o flatten_workouts(seed, m + 1, b)

\* py_html.py: an exercise without sets gets a row of empty strings
HtmlExerciseRows(w, ex) ==
    IF ex.sets = <<>>
    THEN << [date |-> Get(w.date), exercise |-> GetD(ex.exercise_name, Str("")),
             weight |-> Str(""), reps |-> Str(""), notes |-> Str("")] >>
    ELSE [k \in 1 .. Len(ex.sets) |->
            [date |-> Get(w.date), exercise |-> GetD(ex.exercise_name, Str("")),
             weight |-> GetD(ex.sets[k].weight, Str("")),
             reps |-> GetD(ex.sets[k].reps, Str("")),
             notes |-> GetD(ex.sets[k].notes, Str(""))]]

RECURSIVE HtmlExercisesRows(_, _)
HtmlExercisesRows(w, e) ==
    IF e > Len(w.exercises) THEN <<>>
    ELSE HtmlExerciseRows(w, w.exercises[e]) \o HtmlExercisesRows(w, e + 1)

\* py_html.flatten_workouts over data[a..b]
RECURSIVE html_flatten_workouts(_, _, _)
html_flatten_workouts(seed, a, b) ==
    IF a > b THEN <<>>
    ELSE IF a = b THEN HtmlExercisesRows(Workout(seed, a), 1)
    ELSE LET m == (a + b) \div 2
         IN html_flatten_workouts(seed, a, m) \o html_flatten_workouts(seed, m + 1, b)

\* notsimple.flatten_workouts: the rows of pure.py with the column rpe,
\* which no set of the payload carries
notsimple_flatten_workouts(seed, a, b) ==
    LET base == flatten_workouts(seed, a, b)
    IN [i \in 1 .. Len(base) |->
          [date |-> base[i].date, bodyweight |-> base[i].bodyweight,
           exercise |-> base[i].exercise, weight |-> base[i].weight,
           reps |-> base[i].reps, rir |-> base[i].rir, rpe |-> None,
           notes |-> base[i].notes]]

\* rows = flatten_workouts(payload)
PureFlatten ==
    /\ prog \in {"pure", "py_html", "notsimple"}
    /\ pc = "flatten"
    /\ rows' = CASE prog = "pure" ->
                     flatten_workouts(backend.seed, resp.lo + 1, resp.hi)
                 [] prog = "notsimple" ->
                     notsimple_flatten_workouts(backend.seed, resp.lo + 1, resp.hi)
                 [] OTHER ->
                     html_flatten_workouts(backend.seed, resp.lo + 1, resp.hi)
    /\ pc' = "flattened"
    /\ UNCHANGED <<page, resolved, session, call, prog, backend, offset, fetched, iter, resp, msgs, df, raw_data, requests>>

\* variant: a missing internal weight counts as 0
pure_est_1rm_epley3_ZeroLoad(reps, wi, x) ==
    IF IsNa(reps) \/ reps[2] <= 0 THEN None
    ELSE LET xx == IF IsNa(x) THEN 0 ELSE x[2]
             ww == IF IsNa(wi) THEN 0 ELSE wi[2]
         IN Num(10 * RoundDiv((reps[2] + 29) * 333 * (xx + ww) - 10000 * ww, 100000))

\* variant: the internal weight is not taken off again
pure_est_1rm_epley3_NoOffset(reps, wi, x) ==
    IF IsNa(reps) \/ reps[2] <= 0 \/ IsNa(wi) THEN None
    ELSE LET xx == IF IsNa(x) THEN 0 ELSE x[2]
         IN Num(10 * RoundDiv((reps[2] + 29) * 333 * (xx + wi[2]), 100000))

\* pure.est_1rm_epley3 followed by .round(1)
pure_est_1rm_epley3(reps, wi, x) ==
    IF IsNa(reps) \/ reps[2] <= 0 \/ IsNa(wi) THEN None
    ELSE LET xx == IF IsNa(x) THEN 0 ELSE x[2]
         IN Num(10 * RoundDiv((reps[2] + 29) * 333 * (xx + wi[2]) - 10000 * wi[2], 100000))

\* to_dataframe and add_bw_pct_and_1rm on one row
PureTableRow(r) ==
    LET pct == BW_KEYMAP(Norm(r.exercise))
        iw == InternalWeight(r.bodyweight, pct)
    IN [date |-> r.date, bodyweight |-> r.bodyweight, exercise |-> r.exercise,
        weight |-> r.weight, reps |-> r.reps, rir |-> r.rir, notes |-> r.notes,
        bw_pct |-> pct, internal_weight |-> iw,
        est_1RM |-> pure_est_1rm_epley3(r.reps, iw, r.weight)]

\* notsimple.epley3_1rm followed by .round(1)
epley3_1rm(reps, wi, x) ==
    IF IsNa(reps) \/ reps[2] <= 0 THEN None
    ELSE IF IsNa(wi) THEN None
    ELSE LET xx == IF IsNa(x) THEN 0 ELSE x[2]
         IN Num(10 * RoundDiv((reps[2] + 29) * 333 * (xx + wi[2]) - 10000 * wi[2], 100000))

\* notsimple.py: to_dataframe, then table_bw_and_1rm on one row
NotsimpleTableRow(r) ==
    LET pct == BW_KEYMAP(Norm(r.exercise))
        iw == InternalWeight(r.bodyweight, pct)
    IN [date |-> r.date, exercise |-> r.exercise, weight |-> r.weight,
        reps |-> r.reps, rir |-> r.rir, rpe |-> r.rpe,
        bodyweight |-> r.bodyweight, bw_pct |-> pct, internal_weight |-> iw,
        est_1RM |-> epley3_1rm(r.reps, iw, r.weight), notes |-> r.notes]

\* main(): `if not rows: ... sys.exit(0)`, else the table; py_html builds
\* its table from the five columns as they are
PureTable ==
    /\ prog \in {"pure", "py_html", "notsimple"}
    /\ pc = "flattened"
    /\ IF rows = <<>>
       THEN /\ msgs' = Append(msgs, NoRowsMessage(prog))
            /\ pc' = "stopped"
            /\ UNCHANGED df
       ELSE /\ df' = CASE prog = "pure" ->
                          [i \in 1 .. Len(rows) |-> PureTableRow(rows[i])]
                      [] prog = "notsimple" ->
                          [i \in 1 .. Len(rows) |-> NotsimpleTableRow(rows[i])]
                      [] OTHER -> rows
            /\ pc' = "displayed"
            /\ UNCHANGED msgs
    /\ UNCHANGED <<page, resolved, session, call, prog, backend, offset, fetched, iter, resp, rows, raw_data, requests>>

----------------------------------------------------------------------------
(* main.py: fetch the raw workouts, run the five enrichment passes over    *)
(* them in place, then create_workout_df.  Kilograms are in hundredths,    *)
(* the bodyweight fraction in hundredths, reps and heavy points are plain  *)
(* counts, max_reps and RIR are in hundredths of a rep, volume_raw in      *)
(* hundredths of kg*rep, volume_relative in thousandths.                   *)

\* workouts one main.py run handles at most
MaxBatch == 3

\* quotient and remainder of a * 100^k by d, two digits at a time so that
\* no intermediate product leaves 32 bits
RECURSIVE ScaledDiv(_, _, _)
ScaledDiv(a, k, d) ==
    IF k = 0 THEN [q |-> a \div d, r |-> a % d]
    ELSE LET p == ScaledDiv(a, k - 1, d)
         IN [q |-> p.q * 100 + (p.r * 100) \div d, r |-> (p.r * 100) % d]

\* a * 100^k / d rounded to the nearest integer, ties to even
ScaledRoundDiv(a, k, d) ==
    LET p == ScaledDiv(a, k, d)
    IN IF 2 * p.r < d THEN p.q
       ELSE IF 2 * p.r > d THEN p.q + 1
       ELSE IF p.q % 2 = 0 THEN p.q ELSE p.q + 1

\* `x or 0`
OrZero(v) == IF Truthy(v) THEN v[2] ELSE 0

\* str.strip() on the exercise names that occur
Strip(s) ==
    CASE s = "BENCH PRESS " -> "BENCH PRESS"
      [] s = "squat " -> "squat"
      [] OTHER -> s

\* EXERCISE_DATA.get(name, {"bwp": 0, "eq_w": 0}): the keys are matched as
\* they are spelled
EXERCISE_DATA(name) ==
    CASE name = Str("Squat") -> [bwp |-> Num(60), eq_w |-> Num(0)]
      [] name = Str("Bench Press") -> [bwp |-> Num(0), eq_w |-> Num(0)]
      [] name = Str("Pull Ups") -> [bwp |-> Num(100), eq_w |-> Num(0)]
      [] name = Str("Deadlift") -> [bwp |-> Num(20), eq_w |-> Num(0)]
      [] name = Str("Hanging Knee Raise") -> [bwp |-> None, eq_w |-> Num(0)]
      [] OTHER -> [bwp |-> Num(0), eq_w |-> Num(0)]

\* epley3_record(w, reps, w_i): round(3.33 * (w + w_i) * (reps + 29) / 100 - w_i, 2).
\* None of the values that occur lies on a rounding tie, where the binary
\* floating point of the source may round the other way
epley3_record(w, reps, w_i) ==
    RoundDiv(333 * (w + w_i) * (reps + 29) - 10000 * w_i, 10000)

\* variant: the 29 is not taken off
epley3_reps_NoOffset(w, w_rec, w_i) ==
    IF w + w_i = 0 THEN None
    ELSE Num(ScaledRoundDiv(w_rec + w_i, 3, 333 * (w + w_i)))

\* epley3_reps(w, w_rec, w_i): None when 3.33 * (w + w_i) is 0, else
\* round(100 * (w_rec + w_i) / (3.33 * (w + w_i)) - 29, 2)
epley3_reps(w, w_rec, w_i) ==
    IF w + w_i = 0 THEN None
    ELSE Num(ScaledRoundDiv(w_rec + w_i, 3, 333 * (w + w_i)) - 2900)

\* fetch_raw_workouts is imported from utils but is not in the sources:
\* it hands over the account's workouts, or the request fails
MainFetch ==
    /\ prog = "main"
    /\ pc = "request"
    /\ \E kind \in Outcomes :
         IF kind = "ok"
         THEN /\ raw_data' = Data(backend, [lo |-> 0, hi |-> backend.n])
              /\ pc' = "bodyweight_load"
         ELSE /\ pc' = "raised"
              /\ UNCHANGED raw_data
    /\ UNCHANGED <<page, resolved, session, call, prog, backend, offset, fetched, iter, resp, rows, msgs, df, requests>>

\* variant: the stripped name is stored back into the exercise
BodyweightLoad_Renames(workout, exercise) ==
    LET bodyweight == GetD(workout.bodyweight, Num(0))
        name == Str(Strip(GetD(exercise.exercise_name, Str(""))[2]))
        data == EXERCISE_DATA(name)
        bwp == OrZero(data.bwp)
        eq_w == OrZero(data.eq_w)
        bw_load == RoundDiv(bodyweight[2] * bwp, 100)
    IN [exercise EXCEPT !.exercise_name = name,
                        !.bodyweight_p = Num(bwp),
                        !.bodyweight_load = Num(bw_load),
                        !.equipment_weight = Num(eq_w),
                        !.internal_load = Num(bw_load + eq_w)]

\* the body of the exercise loop of enrich_workouts_with_bodyweight_load
BodyweightLoad(workout, exercise) ==
    LET bodyweight == GetD(workout.bodyweight, Num(0))
        name == Str(Strip(GetD(exercise.exercise_name, Str(""))[2]))
        data == EXERCISE_DATA(name)
        bwp == OrZero(data.bwp)
        eq_w == OrZero(data.eq_w)
        bw_load == RoundDiv(bodyweight[2] * bwp, 100)
    IN [exercise EXCEPT !.bodyweight_p = Num(bwp),
                        !.bodyweight_load = Num(bw_load),
                        !.equipment_weight = Num(eq_w),
                        !.internal_load = Num(bw_load + eq_w)]

\* `bodyweight * bwp` with a null bodyweight is a TypeError
BodyweightLoadRaises(data) ==
    \E i \in 1 .. Len(data) :
        data[i].exercises # <<>> /\ GetD(data[i].bodyweight, Num(0)) = None

enrich_workouts_with_bodyweight_load(data) ==
    [i \in 1 .. Len(data) |->
        [data[i] EXCEPT !.exercises =
            [e \in 1 .. Len(data[i].exercises) |->
                BodyweightLoad(data[i], data[i].exercises[e])]]]

\* one set in enrich_workouts_with_1rm
Set1rm(s, w_i) ==
    LET w == OrZero(Get(s.weight))
        r == OrZero(Get(s.reps))
    IN IF w > 0 /\ r > 0
       THEN [s EXCEPT !.one_rep_max = Num(epley3_record(w, r, w_i))]
       ELSE [s EXCEPT !.one_rep_max = None]

\* variant: the estimate of the last set that has one
MaxOneRm_Last(sets) ==
    LET ks == {j \in 1 .. Len(sets) : sets[j].one_rep_max # None}
    IN IF ks = {} THEN None
       ELSE sets[CHOOSE k \in ks : \A j \in ks : j <= k].one_rep_max

\* max(one_rms) if one_rms else None
MaxOneRm(sets) ==
    LET one_rms == {sets[k].one_rep_max[2] : k \in {j \in 1 .. Len(sets) : sets[j].one_rep_max # None}}
    IN IF one_rms = {} THEN None
       ELSE Num(CHOOSE m \in one_rms : \A x \in one_rms : x <= m)

Exercise1rm(exercise) ==
    LET w_i == GetD(exercise.internal_load, Num(0))[2]
        sets == [k \in 1 .. Len(exercise.sets) |-> Set1rm(exercise.sets[k], w_i)]
    IN [exercise EXCEPT !.sets = sets, !.one_rep_max = MaxOneRm(sets)]

enrich_workouts_with_1rm(data) ==
    [i \in 1 .. Len(data) |->
        [data[i] EXCEPT !.exercises =
            [e \in 1 .. Len(data[i].exercises) |-> Exercise1rm(data[i].exercises[e])]]]

\* one set in enrich_workouts_with_rir
SetRir(s, one_rm, w_i) ==
    LET w == OrZero(Get(s.weight))
        r == OrZero(Get(s.reps))
        max_reps == epley3_reps(w, one_rm, w_i)
    IN IF w > 0 /\ r > 0
       THEN IF max_reps # None
            THEN [s EXCEPT !.RIR = Num(max_reps[2] - 100 * r), !.max_reps = max_reps]
            ELSE s
       ELSE [s EXCEPT !.RIR = None, !.max_reps = None]

ExerciseRir(exercise) ==
    LET one_rm == Get(exercise.one_rep_max)
        w_i == GetD(exercise.internal_load, Num(0))[2]
    IN IF one_rm = None THEN exercise
       ELSE [exercise EXCEPT !.sets =
                [k \in 1 .. Len(exercise.sets) |-> SetRir(exercise.sets[k], one_rm[2], w_i)]]

enrich_workouts_with_rir(data) ==
    [i \in 1 .. Len(data) |->
        [data[i] EXCEPT !.exercises =
            [e \in 1 .. Len(data[i].exercises) |-> ExerciseRir(data[i].exercises[e])]]]

\* total_volume after the sets 1 .. k
RECURSIVE TotalVolume(_, _)
TotalVolume(sets, k) ==
    IF k = 0 THEN 0
    ELSE TotalVolume(sets, k - 1)
           + OrZero(Get(sets[k].weight)) * OrZero(Get(sets[k].reps))

\* ExerciseVolume dividing by the best 1RM itself instead of 80% of it
ExerciseVolume_FullMax(exercise) ==
    LET one_rm == OrZero(Get(exercise.one_rep_max))
        total_volume == TotalVolume(exercise.sets, Len(exercise.sets))
    IN [exercise EXCEPT
          !.volume_raw = Num(total_volume),
          !.volume_relative =
              IF one_rm > 0 THEN Num(RoundDiv(1000 * total_volume, one_rm)) ELSE Num(0)]

\* relative_volume sums (w * r) / (one_rm * 0.8) and is rounded to three
\* decimals at the end
ExerciseVolume(exercise) ==
    LET one_rm == OrZero(Get(exercise.one_rep_max))
        total_volume == TotalVolume(exercise.sets, Len(exercise.sets))
    IN [exercise EXCEPT
          !.volume_raw = Num(total_volume),
          !.volume_relative =
              IF one_rm > 0 THEN Num(RoundDiv(1250 * total_volume, one_rm)) ELSE Num(0)]

enrich_workouts_with_volume(data) ==
    [i \in 1 .. Len(data) |->
        [data[i] EXCEPT !.exercises =
            [e \in 1 .. Len(data[i].exercises) |-> ExerciseVolume(data[i].exercises[e])]]]

\* heavy_points after the sets 1 .. k; w > 0.93 * (one_rm + w_i) - w_i
RECURSIVE HeavyPoints(_, _, _, _)
HeavyPoints(sets, k, one_rm, w_i) ==
    IF k = 0 THEN 0
    ELSE LET w == OrZero(Get(sets[k].weight))
             r == OrZero(Get(sets[k].reps))
         IN HeavyPoints(sets, k - 1, one_rm, w_i)
              + (IF 100 * w > 93 * (one_rm + w_i) - 100 * w_i THEN 2 * r
                 ELSE IF 100 * w > 85 * (one_rm + w_i) - 100 * w_i THEN r
                 ELSE 0)

\* ExerciseHeavyVolume leaving volume_heavy out when there is no positive 1RM
ExerciseHeavyVolume_Skip(exercise) ==
    LET one_rm == OrZero(Get(exercise.one_rep_max))
        w_i == GetD(exercise.internal_load, Num(0))[2]
    IN IF one_rm <= 0 THEN exercise
       ELSE [exercise EXCEPT !.volume_heavy =
                Num(HeavyPoints(exercise.sets, Len(exercise.sets), one_rm, w_i))]

ExerciseHeavyVolume(exercise) ==
    LET one_rm == OrZero(Get(exercise.one_rep_max))
        w_i == GetD(exercise.internal_load, Num(0))[2]
    IN IF one_rm <= 0 THEN [exercise EXCEPT !.volume_heavy = Num(0)]
       ELSE [exercise EXCEPT !.volume_heavy =
                Num(HeavyPoints(exercise.sets, Len(exercise.sets), one_rm, w_i))]

enrich_workouts_with_heavy_volume(data) ==
    [i \in 1 .. Len(data) |->
        [data[i] EXCEPT !.exercises =
            [e \in 1 .. Len(data[i].exercises) |-> ExerciseHeavyVolume(data[i].exercises[e])]]]

\* get_data_from_username runs the passes one after the other
EnrichBodyweightLoad ==
    /\ prog = "main"
    /\ pc = "bodyweight_load"
    /\ IF BodyweightLoadRaises(raw_data)
       THEN /\ pc' = "raised"
            /\ UNCHANGED raw_data
       ELSE /\ raw_data' = enrich_workouts_with_bodyweight_load(raw_data)
            /\ pc' = "1rm"
    /\ UNCHANGED <<page, resolved, session, call, prog, backend, offset, fetched, iter, resp, rows, msgs, df, requests>>

Enrich1rm ==
    /\ prog = "main"
    /\ pc = "1rm"
    /\ raw_data' = enrich_workouts_with_1rm(raw_data)
    /\ pc' = "rir"
    /\ UNCHANGED <<page, resolved, session, call, prog, backend, offset, fetched, iter, resp, rows, msgs, df, requests>>

EnrichRir ==
    /\ prog = "main"
    /\ pc = "rir"
    /\ raw_data' = enrich_workouts_with_rir(raw_data)
    /\ pc' = "volume"
    /\ UNCHANGED <<page, resolved, session, call, prog, backend, offset, fetched, iter, resp, rows, msgs, df, requests>>

EnrichVolume ==
    /\ prog = "main"
    /\ pc = "volume"
    /\ raw_data' = enrich_workouts_with_volume(raw_data)
    /\ pc' = "heavy_volume"
    /\ UNCHANGED <<page, resolved, session, call, prog, backend, offset, fetched, iter, resp, rows, msgs, df, requests>>

EnrichHeavyVolume ==
    /\ prog = "main"
    /\ pc = "heavy_volume"
    /\ raw_data' = enrich_workouts_with_heavy_volume(raw_data)
    /\ pc' = "enriched"
    /\ UNCHANGED <<page, resolved, session, call, prog, backend, offset, fetched, iter, resp, rows, msgs, df, requests>>

\* the rows create_workout_df appends for one exercise, sets k onwards
RECURSIVE DfSetRows(_, _, _)
DfSetRows(workout_day, exercise, k) ==
    IF k > Len(exercise.sets) THEN <<>>
    ELSE (IF StrengthSet(exercise.sets[k])
          THEN << [date |-> format_date(workout_day.date),
                   exercise |-> exercise.exercise_name,
                   weight |-> Get(exercise.sets[k].weight),
                   Reps |-> Get(exercise.sets[k].reps),
                   one_rep_max |-> Get(exercise.one_rep_max)] >>
          ELSE <<>>)
         \o DfSetRows(workout_day, exercise, k + 1)

RECURSIVE DfExercisesRows(_, _)
DfExercisesRows(workout_day, e) ==
    IF e > Len(workout_day.exercises) THEN <<>>
    ELSE DfSetRows(workout_day, workout_day.exercises[e], 1)
         \o DfExercisesRows(workout_day, e + 1)

RECURSIVE create_workout_df(_, _)
create_workout_df(all_workouts, i) ==
    IF i > Len(all_workouts) THEN <<>>
    ELSE DfExercisesRows(all_workouts[i], 1) \o create_workout_df(all_workouts, i + 1)

\* df = create_workout_df(raw_data)
MainCreateDf ==
    /\ prog = "main"
    /\ pc = "enriched"
    /\ df' = create_workout_df(raw_data, 1)
    /\ pc' = "displayed"
    /\ UNCHANGED <<page, resolved, session, call, prog, backend, offset, fetched, iter, resp, rows, msgs, raw_data, requests>>

----------------------------------------------------------------------------
(* The 1RM helpers of main.py called on their own: epley3_record, then     *)
(* epley3_reps on its result.                                              *)

\* reps tried at most
MaxReps == 12

\* working weights and internal loads tried, hundredths of a kilogram
Weights == {0, 50, 250, 6000, 10000}

Loads == {0, 1, 4800, 8000}

NoCall == [w |-> None, reps |-> None, w_i |-> None, w_rec |-> None, max_reps |-> None]

\* no page handed over, no resolver run yet, a fresh st.session_state
NoPage == [kind |-> "none", prefill |-> <<>>]

NoOutcome == [kind |-> "none", value |-> None, error |-> "", message |-> ""]

NoSession == [last_selected_person |-> Absent, runs |-> <<>>]

\* epley3_record(w, reps, w_i) with its None tests and round(.., 2)
CallRecord ==
    /\ prog = "epley3"
    /\ pc = "record"
    /\ call' = [call EXCEPT !.w_rec =
                   IF call.w = None \/ call.reps = None \/ call.w_i = None THEN None
                   ELSE Num(epley3_record(call.w[2], call.reps[2], call.w_i[2]))]
    /\ pc' = "reps"
    /\ UNCHANGED <<prog, backend, offset, fetched, iter, resp, rows, msgs, df,
                   raw_data, requests, page, resolved, session>>

\* epley3_reps(w, w_rec, w_i) with its None tests
CallReps ==
    /\ prog = "epley3"
    /\ pc = "reps"
    /\ call' = [call EXCEPT !.max_reps =
                   IF call.w = None \/ call.w_rec = None \/ call.w_i = None THEN None
                   ELSE epley3_reps(call.w[2], call.w_rec[2], call.w_i[2])]
    /\ pc' = "returned"
    /\ UNCHANGED <<prog, backend, offset, fetched, iter, resp, rows, msgs, df,
                   raw_data, requests, page, resolved, session>>

InitEpley3 ==
    /\ prog = "epley3"
    /\ backend = [kind |-> "store", n |-> 0, seed |-> 0]
    /\ pc = "record"
    /\ offset = 0
    /\ fetched = 0
    /\ iter = 0
    /\ resp = NoResp
    /\ rows = <<>>
    /\ msgs = <<>>
    /\ df = <<>>
    /\ raw_data = <<>>
    /\ requests = <<>>
    /\ \E w \in Weights, reps \in 1 .. MaxReps, w_i \in Loads :
          call = [NoCall EXCEPT !.w = Num(w), !.reps = Num(reps), !.w_i = Num(w_i)]
    /\ page = NoPage
    /\ resolved = NoOutcome
    /\ session = NoSession

NextEpley3 ==
    \/ CallRecord
    \/ CallReps

SpecEpley3 == InitEpley3 /\ [][NextEpley3]_vars

----------------------------------------------------------------------------
(* The resolver: the account id is read from the profile page, which       *)
(* embeds `window.prefill = [...];`.  A page is the outcome of the regular *)
(* expression and of json.loads: no match, text that is not JSON, or the   *)
(* array of entries.                                                       *)

Dict(r) == <<"dict", r>>

IsDict(v) == v[1] = "dict"

WORKOUTS_URL == Str("/api/workouts")

Params(user_id) == Dict([user_id |-> user_id])

Request(url, params) == Dict([url |-> url, params |-> params])

Blob(request) == Dict([request |-> request])

\* entries of the array
Entries ==
    { Blob(Request(WORKOUTS_URL, Params(Str("u1")))),
      Blob(Request(WORKOUTS_URL, Params(Str("u2")))),
      Blob(Request(Str("/api/user"), Params(Str("u9")))),
      Blob(Request(WORKOUTS_URL, Params(Absent))),
      Blob(Request(WORKOUTS_URL, Params(Str("")))),
      Blob(Request(WORKOUTS_URL, Absent)),
      Blob(Absent),
      Blob(Request(WORKOUTS_URL, None)),
      Blob(None),
      Num(7) }

MaxEntries == 2

Prefills == UNION {[1 .. n -> Entries] : n \in 0 .. MaxEntries}

Pages ==
    {[kind |-> "nomatch", prefill |-> <<>>], [kind |-> "badjson", prefill |-> <<>>]}
    \cup {[kind |-> "prefill", prefill |-> e] : e \in Prefills}

Returned(v) == [kind |-> "returned", value |-> v, error |-> "", message |-> ""]

Raised(e, m) == [kind |-> "raised", value |-> None, error |-> e, message |-> m]

\* st.error(m) followed by st.stop(), or the ([], m) of safe_fetch_rows
Stopped(m) == [kind |-> "stopped", value |-> None, error |-> "", message |-> m]

RECURSIVE ScanPrefill(_, _)

\* variant: the url of the entry is not looked at
ScanPrefill_AnyUrl(prefill, k) ==
    IF k > Len(prefill)
    THEN Raised("ValueError", "user_id not found in prefill JSON")
    ELSE LET blob == prefill[k] IN
         IF ~IsDict(blob) THEN Raised("AttributeError", "")
         ELSE LET req == GetD(blob[2].request, Request(Absent, Absent)) IN
              IF ~IsDict(req) THEN Raised("AttributeError", "")
              ELSE LET params == GetD(req[2].params, Params(Absent)) IN
                   IF ~IsDict(params) THEN Raised("AttributeError", "")
                   ELSE LET user_id == Get(params[2].user_id) IN
                        IF Truthy(user_id) THEN Returned(user_id)
                        ELSE ScanPrefill(prefill, k + 1)

\* the loop `for blob in prefill` of parse_prefill_for_user_id from entry k
\* on; .get on a value that is not a dict raises AttributeError
ScanPrefill(prefill, k) ==
    IF k > Len(prefill)
    THEN Raised("ValueError", "user_id not found in prefill JSON")
    ELSE LET blob == prefill[k] IN
         IF ~IsDict(blob) THEN Raised("AttributeError", "")
         ELSE LET req == GetD(blob[2].request, Request(Absent, Absent)) IN
              IF ~IsDict(req) THEN Raised("AttributeError", "")
              ELSE IF Get(req[2].url) # WORKOUTS_URL THEN ScanPrefill(prefill, k + 1)
              ELSE LET params == GetD(req[2].params, Params(Absent)) IN
                   IF ~IsDict(params) THEN Raised("AttributeError", "")
                   ELSE LET user_id == Get(params[2].user_id) IN
                        IF Truthy(user_id) THEN Returned(user_id)
                        ELSE ScanPrefill(prefill, k + 1)

parse_prefill_for_user_id(p) ==
    IF p.kind = "nomatch" THEN Raised("ValueError", "prefill JSON not found in page")
    ELSE IF p.kind = "badjson" THEN Raised("ValueError", "failed to parse prefill JSON")
    ELSE ScanPrefill(p.prefill, 1)

\* utils.fetch_user_id: prefill[0]["request"]["params"]["user_id"]
fetch_user_id(p) ==
    IF p.kind = "nomatch"
    THEN Raised("ValueError", "Could not find prefill JSON")
    ELSE IF p.kind = "badjson" THEN Raised("JSONDecodeError", "")
    ELSE IF p.prefill = <<>> THEN Raised("IndexError", "")
    ELSE LET blob == p.prefill[1] IN
         IF ~IsDict(blob) THEN Raised("TypeError", "")
         ELSE IF blob[2].request = Absent THEN Raised("KeyError", "request")
         ELSE IF ~IsDict(blob[2].request) THEN Raised("TypeError", "")
         ELSE LET req == blob[2].request[2] IN
              IF req.params = Absent THEN Raised("KeyError", "params")
              ELSE IF ~IsDict(req.params) THEN Raised("TypeError", "")
              ELSE IF req.params[2].user_id = Absent THEN Raised("KeyError", "user_id")
              ELSE Returned(req.params[2].user_id)

\* the resolver block of crawler1.py from entry k on: user_id keeps the
\* last value assigned when the loop ends without a break
RECURSIVE CrawlerScan(_, _, _)
CrawlerScan(prefill, k, user_id) ==
    IF k > Len(prefill)
    THEN IF Truthy(user_id) THEN Returned(user_id)
         ELSE Stopped("Could not extract user_id from page JSON.")
    ELSE LET blob == prefill[k] IN
         IF ~IsDict(blob) THEN Raised("AttributeError", "")
         ELSE LET req == GetD(blob[2].request, Request(Absent, Absent)) IN
              IF ~IsDict(req) THEN Raised("AttributeError", "")
              ELSE IF Get(req[2].url) # WORKOUTS_URL
                   THEN CrawlerScan(prefill, k + 1, user_id)
              ELSE LET params == GetD(req[2].params, Params(Absent)) IN
                   IF ~IsDict(params) THEN Raised("AttributeError", "")
                   ELSE LET u == Get(params[2].user_id) IN
                        IF Truthy(u) THEN Returned(u)
                        ELSE CrawlerScan(prefill, k + 1, u)

CrawlerUserId(p) ==
    IF p.kind = "nomatch"
    THEN Stopped("Could not find window.prefill JSON; page structure changed?")
    ELSE IF p.kind = "badjson" THEN Stopped("Failed to parse window.prefill JSON.")
    ELSE CrawlerScan(p.prefill, 1, None)

\* where a run goes when the resolver fails
AfterResolverFailure_Fetch(kind) == "request"

AfterResolverFailure(kind) == kind

\* crawler1.py: the profile page is requested and the account id read
CrawlerResolve ==
    /\ prog = "crawler1"
    /\ pc = "resolve"
    /\ \E kind \in {"ok", "neterr"}, p \in Pages :
         LET out == IF kind = "neterr" THEN Stopped("Failed to load workouts page")
                    ELSE CrawlerUserId(p)
         IN /\ resolved' = out
            /\ pc' = IF out.kind = "returned" THEN "request"
                     ELSE AfterResolverFailure(out.kind)
            /\ msgs' = IF out.kind = "stopped" THEN Append(msgs, out.message) ELSE msgs
    /\ UNCHANGED <<page, session, call, prog, backend, offset, fetched, iter, resp, rows,
                   df, raw_data, requests>>

\* what safe_fetch_rows returns next to [] for an exception of the resolver
SafeFetchMessage_Empty(out) == ""

SafeFetchMessage(out) ==
    IF out.error = "ValueError" THEN out.message ELSE "Unexpected error"

\* safe_fetch_rows of notsimple.py and simple.py up to the account id:
\* fetch_page, parse_prefill_for_user_id and the except clauses
SafeFetchResolve ==
    /\ prog = "notsimple"
    /\ pc = "resolve"
    /\ \E kind \in {"ok", "neterr"}, p \in Pages :
         LET out == IF kind = "neterr" THEN Stopped("Network error")
                    ELSE LET r == parse_prefill_for_user_id(p)
                         IN IF r.kind = "returned" THEN r ELSE Stopped(SafeFetchMessage(r))
         IN /\ resolved' = out
            /\ pc' = IF out.kind = "returned" THEN "request"
                     ELSE AfterResolverFailure(out.kind)
            /\ msgs' = IF out.kind = "stopped"
                        THEN Append(msgs, ShownOnFailure(prog, out.message))
                        ELSE msgs
    /\ UNCHANGED <<page, session, call, prog, backend, offset, fetched, iter, resp, rows,
                   df, raw_data, requests>>

\* a resolver called on its own with a page
CallParsePrefill ==
    /\ prog = "parse_prefill_for_user_id"
    /\ pc = "call"
    /\ resolved' = parse_prefill_for_user_id(page)
    /\ pc' = resolved'.kind
    /\ UNCHANGED <<page, session, call, prog, backend, offset, fetched, iter, resp, rows,
                   msgs, df, raw_data, requests>>

CallFetchUserId ==
    /\ prog = "fetch_user_id"
    /\ pc = "call"
    /\ resolved' = fetch_user_id(page)
    /\ pc' = resolved'.kind
    /\ UNCHANGED <<page, session, call, prog, backend, offset, fetched, iter, resp, rows,
                   msgs, df, raw_data, requests>>

----------------------------------------------------------------------------
(* crawler1.py is rerun from the top whenever the selection changes or the *)
(* page is touched; st.session_state outlives the run.                     *)

Names == {"dzuljeta", "mantas", "kristina"}

MaxRuns == 4

\* variant: a changed selection is not stored
LastSelectedPerson_First(last, selected_name) ==
    IF last = Absent THEN Str(selected_name) ELSE last

\* st.session_state.last_selected_person after the gate
LastSelectedPerson(last, selected_name) ==
    IF last = Absent THEN Str(selected_name)
    ELSE IF last # Str(selected_name) THEN Str(selected_name)
    ELSE last

\* should_fetch after the gate
ShouldFetch(last, selected_name) ==
    IF last = Absent THEN TRUE
    ELSE IF last # Str(selected_name) THEN TRUE
    ELSE FALSE

\* one run of the script up to `if should_fetch:`
Rerun ==
    /\ prog = "crawler1"
    /\ pc = "rerun"
    /\ Len(session.runs) < MaxRuns
    /\ \E selected_name \in Names :
         session' = [last_selected_person |->
                         LastSelectedPerson(session.last_selected_person, selected_name),
                     runs |-> Append(session.runs,
                         [selected_name |-> selected_name,
                          should_fetch |->
                              ShouldFetch(session.last_selected_person, selected_name)])]
    /\ UNCHANGED <<page, resolved, call, prog, backend, pc, offset, fetched, iter, resp,
                   rows, msgs, df, raw_data, requests>>

----------------------------------------------------------------------------

Progs == {"crawler1", "utils", "pure", "py_html", "notsimple", "main"}

\* the accounts a main.py or notsimple.py run is started on
Batches == [kind : {"store"}, n : 0 .. MaxBatch, seed : 0 .. NumShapes - 1]

Init ==
    /\ prog \in Progs
    /\ backend \in IF prog \in {"main", "notsimple"} THEN Batches ELSE Backends
    /\ backend.kind = "echo" => prog = "crawler1"
    /\ pc = IF prog \in {"crawler1", "notsimple"} THEN "resolve" ELSE "request"
    /\ offset = 0
    /\ fetched = 0
    /\ iter = 0
    /\ resp = NoResp
    /\ rows = <<>>
    /\ msgs = <<>>
    /\ df = <<>>
    /\ raw_data = <<>>
    /\ requests = <<>>
    /\ call = NoCall
    /\ page = NoPage
    /\ resolved = NoOutcome
    /\ session = NoSession

Next ==
    \/ CrawlerResolve
    \/ SafeFetchResolve
    \/ CrawlerRequest
    \/ CrawlerProcess
    \/ CrawlerFinish
    \/ UtilsRequest
    \/ UtilsProcess
    \/ UtilsReturn
    \/ PureFetch
    \/ PureFlatten
    \/ PureTable
    \/ MainFetch
    \/ EnrichBodyweightLoad
    \/ Enrich1rm
    \/ EnrichRir
    \/ EnrichVolume
    \/ EnrichHeavyVolume
    \/ MainCreateDf

Spec == Init /\ [][Next]_vars

\* crawler1.py alone, from the entry of its fetch loop with the account id
\* resolved.  The script is one synchronous thread: while a step is
\* possible it is taken.
InitCrawler ==
    /\ prog = "crawler1"
    /\ backend \in Backends
    /\ pc = "request"
    /\ offset = 0
    /\ fetched = 0
    /\ iter = 0
    /\ resp = NoResp
    /\ rows = <<>>
    /\ msgs = <<>>
    /\ df = <<>>
    /\ raw_data = <<>>
    /\ requests = <<>>
    /\ call = NoCall
    /\ page = NoPage
    /\ resolved = Returned(Str("u1"))
    /\ session = NoSession

NextCrawler ==
    \/ CrawlerRequest
    \/ CrawlerProcess
    \/ CrawlerFinish

SpecCrawlerFair == InitCrawler /\ [][NextCrawler]_vars /\ WF_vars(NextCrawler)

\* a resolver alone, on every page
InitResolver ==
    /\ prog \in {"parse_prefill_for_user_id", "fetch_user_id"}
    /\ backend = [kind |-> "store", n |-> 0, seed |-> 0]
    /\ pc = "call"
    /\ offset = 0
    /\ fetched = 0
    /\ iter = 0
    /\ resp = NoResp
    /\ rows = <<>>
    /\ msgs = <<>>
    /\ df = <<>>
    /\ raw_data = <<>>
    /\ requests = <<>>
    /\ call = NoCall
    /\ page \in Pages
    /\ resolved = NoOutcome
    /\ session = NoSession

NextResolver ==
    \/ CallParsePrefill
    \/ CallFetchUserId

SpecResolver == InitResolver /\ [][NextResolver]_vars

\* the gate of crawler1.py over the reruns of one session
InitSession ==
    /\ prog = "crawler1"
    /\ backend = [kind |-> "store", n |-> 0, seed |-> 0]
    /\ pc = "rerun"
    /\ offset = 0
    /\ fetched = 0
    /\ iter = 0
    /\ resp = NoResp
    /\ rows = <<>>
    /\ msgs = <<>>
    /\ df = <<>>
    /\ raw_data = <<>>
    /\ requests = <<>>
    /\ call = NoCall
    /\ page = NoPage
    /\ resolved = NoOutcome
    /\ session = NoSession

NextSession == Rerun

SpecSession == InitSession /\ [][NextSession]_vars

----------------------------------------------------------------------------
(* Observations shared by the claims.                                      *)

\* the loop was entered and has been left
LoopDone ==
    /\ pc \in {"after", "stopped", "displayed"}
    /\ resolved.kind \notin {"stopped", "raised"}

PageSizes == [k \in 1 .. Len(requests) |-> requests[k].size]

AllOk == \A k \in 1 .. Len(requests) : requests[k].kind = "ok"

LastFailed ==
    /\ requests # <<>>
    /\ requests[Len(requests)].kind # "ok"

\* the page a recorded request was answered with
FullPage(q) == q.kind = "ok" /\ ~(q.size < q.limit)

----------------------------------------------------------------------------
(* C1: in the crawler1.py loop no request follows the first page that is   *)
(* empty or shorter than limit, and no request follows a failed one: every *)
(* request but the last was answered with a full page.  Page sizes         *)
(* [200, 200, 73] take exactly three requests, [200, 0] exactly two.       *)
C1_StopsAtFirstShortPage ==
    prog = "crawler1" =>
        /\ \A k \in 1 .. Len(requests) - 1 : FullPage(requests[k])
        /\ (LoopDone /\ AllOk /\ backend.kind = "store" /\ backend.n = 473)
               => PageSizes = <<200, 200, 73>>
        /\ (LoopDone /\ AllOk /\ backend.kind = "store" /\ backend.n = 200)
               => PageSizes = <<200, 0>>

C1_Witness ==
    /\ prog = "crawler1"
    /\ pc = "displayed"
    /\ PageSizes = <<200, 200, 73>>

----------------------------------------------------------------------------
(* C3, as stated: the crawler1.py loop terminates against every backend,   *)
(* also one that answers every out-of-range offset with a full page.       *)
C3_AlwaysTerminates == <>LoopDone

(* C3, amended: the loop ends as soon as a request fails or returns an     *)
(* empty or short page; a run that never ends is one in which full pages   *)
(* keep arriving forever.                                                  *)
C3_TerminatesUnlessPagesStayFull ==
    \/ <>LoopDone
    \/ []<>(pc = "process" /\ resp.kind = "ok" /\ PageLen(resp) = limit)

\* an echo backend answering an offset past its last record, loop still on
C3_Witness ==
    /\ prog = "crawler1"
    /\ backend.kind = "echo"
    /\ pc = "process"
    /\ offset >= backend.n + limit
    /\ resp.kind = "ok" /\ PageLen(resp) = limit

----------------------------------------------------------------------------
(* What the flattening is claimed to produce, stated without the code's    *)
(* loops: the (exercise, set) positions of a workout that get a row.       *)
(* <<0, 0>> stands for a workout without exercises, <<e, 0>> for an        *)
(* exercise without sets.                                                  *)

Triples(w) ==
    IF w.exercises = <<>> THEN {<<0, 0>>}
    ELSE UNION { IF w.exercises[e].sets = <<>> THEN {<<e, 0>>}
                 ELSE {<<e, k>> : k \in 1 .. Len(w.exercises[e].sets)}
                 : e \in 1 .. Len(w.exercises) }

\* t comes before u in (exercise, set) order
Before(t, u) == t[1] < u[1] \/ (t[1] = u[1] /\ t[2] < u[2])

\* number of rows claimed for the workouts a .. b of a backend
RECURSIVE TripleCount(_, _, _)
TripleCount(seed, a, b) ==
    IF a > b THEN 0
    ELSE IF a = b THEN Cardinality(Triples(Workout(seed, a)))
    ELSE LET m == (a + b) \div 2
         IN TripleCount(seed, a, m) + TripleCount(seed, m + 1, b)

\* rows claimed for the pages the recorded requests 1 .. k were answered with
RECURSIVE AnsweredCount(_)
AnsweredCount(k) ==
    IF k = 0 THEN 0
    ELSE LET q == requests[k]
             r == Respond(backend, q.offset, q.limit)
         IN AnsweredCount(k - 1)
              + (IF q.kind = "ok" THEN TripleCount(backend.seed, r.lo + 1, r.hi) ELSE 0)

RowId(i) == rows[i].workout_id[2]

----------------------------------------------------------------------------
(* C4: when the request for page k >= 2 fails (network error or non-JSON   *)
(* body) the crawler1.py loop stops, no exception escapes, the rows of     *)
(* pages 1 .. k-1 are all kept, and the table step receives them.          *)
C4_FailedPageKeepsEarlierRows ==
    (prog = "crawler1" /\ LastFailed /\ Len(requests) >= 2) =>
        /\ pc \in {"process", "after", "displayed"}
        /\ fetched = (Len(requests) - 1) * limit
        /\ Len(rows) = AnsweredCount(Len(requests) - 1)
        /\ RowId(1) = 1
        /\ backend.kind = "store" => RowId(Len(rows)) = fetched
        /\ pc = "displayed" =>
              /\ Len(df) = Len(rows)
              /\ \A i \in 1 .. Len(df) :
                    /\ df[i].exercise = rows[i].exercise
                    /\ df[i].weight = rows[i].weight
                    /\ df[i].reps = rows[i].reps

\* page 1 holds 200 workouts, the request for page 2 fails, the table is shown
C4_Witness ==
    /\ prog = "crawler1"
    /\ pc = "displayed"
    /\ Len(requests) = 2
    /\ requests[2].kind = "nonjson"
    /\ fetched = 200
    /\ Len(df) >= 200

----------------------------------------------------------------------------
(* C5: against a store of N workouts that answers every (offset, limit)    *)
(* with that slice, the crawler1.py loop processes exactly the workouts    *)
(* 1 .. N, each once, in backend order, for every N (0 and multiples of    *)
(* the limit included).                                                    *)
C5_ProcessesEachWorkoutOnce ==
    (prog = "crawler1" /\ backend.kind = "store" /\ LoopDone /\ AllOk) =>
        /\ fetched = backend.n
        /\ Len(rows) = TripleCount(backend.seed, 1, backend.n)
        /\ backend.n = 0 => rows = <<>>
        /\ backend.n > 0 =>
              /\ RowId(1) = 1
              /\ RowId(Len(rows)) = backend.n
              /\ \A i \in 1 .. Len(rows) - 1 : RowId(i + 1) - RowId(i) \in {0, 1}

\* an exact multiple of the limit, fetched to the end
C5_Witness ==
    /\ prog = "crawler1"
    /\ backend.kind = "store"
    /\ backend.n = 2 * limit
    /\ pc = "displayed"
    /\ AllOk
    /\ fetched = 2 * limit

----------------------------------------------------------------------------
(* The row claimed for one (exercise, set) position of a workout.  ph is   *)
(* what a placeholder row holds in its set-level fields.                   *)

NullFields ==
    [weight |-> None, reps |-> None, notes |-> None, dropset |-> None,
     percentile |-> None]

CodedFields ==
    [weight |-> None, reps |-> None, notes |-> Str(""), dropset |-> Bool(FALSE),
     percentile |-> None]

ClaimedRow(w, t, ph) ==
    LET name == IF t[1] = 0 THEN Str("") ELSE w.exercises[t[1]].exercise_name
        f == IF t[2] = 0 THEN ph ELSE w.exercises[t[1]].sets[t[2]]
    IN [workout_id |-> w.id, date |-> w.date, bodyweight |-> w.bodyweight,
        exercise |-> name, weight |-> f.weight, reps |-> f.reps,
        notes |-> f.notes, dropset |-> f.dropset, percentile |-> f.percentile]

\* the i-th position of w in (exercise, set) order
TripleAt(w, i) ==
    CHOOSE t \in Triples(w) :
        Cardinality({u \in Triples(w) : Before(u, t)}) = i - 1

ClaimedRows(w, ph) ==
    [i \in 1 .. Cardinality(Triples(w)) |-> ClaimedRow(w, TripleAt(w, i), ph)]

RECURSIVE ClaimedRange(_, _, _, _)
ClaimedRange(seed, a, b, ph) ==
    IF a > b THEN <<>>
    ELSE IF a = b THEN ClaimedRows(Workout(seed, a), ph)
    ELSE LET m == (a + b) \div 2
         IN ClaimedRange(seed, a, m, ph) \o ClaimedRange(seed, m + 1, b, ph)

----------------------------------------------------------------------------
(* C2: fetch_workout_data of utils.py stops paginating after a page with   *)
(* fewer than FETCH_LIMIT records without a further request: every request *)
(* but the last was answered with a full page, and page sizes              *)
(* [200, 200, 73] take exactly three requests.                             *)
C2_UtilsStopsAfterShortPage ==
    prog = "utils" =>
        /\ \A k \in 1 .. Len(requests) - 1 : FullPage(requests[k])
        /\ (pc \in {"after", "returned"} /\ AllOk /\ backend.n = 473)
               => PageSizes = <<200, 200, 73>>

----------------------------------------------------------------------------
(* C7: flatten_workouts of pure.py never drops data: every workout of the  *)
(* payload, also one without exercises, and every exercise, also one       *)
(* without sets, has a row, so there are as many rows as (exercise, set)   *)
(* positions, placeholders included.                                       *)
C7_FlattenNeverDropsData ==
    (prog = "pure" /\ pc = "flattened") =>
        /\ Len(rows) = TripleCount(backend.seed, resp.lo + 1, resp.hi)
        /\ \A id \in resp.lo + 1 .. Min(resp.hi, NumShapes) :
              LET w == Workout(backend.seed, id) IN
              /\ \E i \in 1 .. Len(rows) : rows[i].date = w.date
              /\ \A e \in 1 .. Len(w.exercises) :
                    \E i \in 1 .. Len(rows) :
                        /\ rows[i].date = w.date
                        /\ rows[i].exercise = w.exercises[e].exercise_name

----------------------------------------------------------------------------
(* C8: rows keep the input order.  In crawler1.py two neighbouring rows    *)
(* are either neighbouring (exercise, set) positions of one workout, or    *)
(* the last position of a workout and the first of the next one, also      *)
(* across a page boundary, and the table shows the rows in that order.     *)
(* pure.flatten_workouts returns the set rows workout by workout, exercise *)
(* by exercise, set by set, and its table keeps that order.                *)

Positions(w) == Cardinality(Triples(w))

CrawlerNeighbours(i) ==
    LET w == Workout(backend.seed, RowId(i))
        v == Workout(backend.seed, RowId(i) + 1)
    IN \/ /\ RowId(i + 1) = RowId(i)
          /\ \E j \in 1 .. Positions(w) - 1 :
                /\ rows[i] = ClaimedRow(w, TripleAt(w, j), CodedFields)
                /\ rows[i + 1] = ClaimedRow(w, TripleAt(w, j + 1), CodedFields)
       \/ /\ RowId(i + 1) = RowId(i) + 1
          /\ rows[i] = ClaimedRow(w, TripleAt(w, Positions(w)), CodedFields)
          /\ rows[i + 1] = ClaimedRow(v, TripleAt(v, 1), CodedFields)

\* the (exercise, set) positions of w that hold a set
SetPositions(w) == {t \in Triples(w) : t[2] > 0}

SetPositionAt(w, i) ==
    CHOOSE t \in SetPositions(w) :
        Cardinality({u \in SetPositions(w) : Before(u, t)}) = i - 1

ClaimedSetRows(w) ==
    [i \in 1 .. Cardinality(SetPositions(w)) |->
        LET t == SetPositionAt(w, i)
            s == w.exercises[t[1]].sets[t[2]]
        IN [date |-> w.date, bodyweight |-> w.bodyweight,
            exercise |-> w.exercises[t[1]].exercise_name,
            weight |-> s.weight, reps |-> s.reps, rir |-> None,
            notes |-> s.notes]]

RECURSIVE ClaimedSetRange(_, _, _)
ClaimedSetRange(seed, a, b) ==
    IF a > b THEN <<>>
    ELSE IF a = b THEN ClaimedSetRows(Workout(seed, a))
    ELSE LET m == (a + b) \div 2
         IN ClaimedSetRange(seed, a, m) \o ClaimedSetRange(seed, m + 1, b)

C8_RowsKeepInputOrder ==
    /\ (prog = "crawler1" /\ backend.kind = "store") =>
          /\ \A i \in 1 .. Len(rows) - 1 : CrawlerNeighbours(i)
          /\ pc = "displayed" =>
                /\ Len(df) = Len(rows)
                /\ \A i \in 1 .. Len(df) :
                      /\ df[i].date = DateLabel(rows[i].date)
                      /\ df[i].exercise = rows[i].exercise
                      /\ df[i].weight = rows[i].weight
                      /\ df[i].reps = rows[i].reps
                      /\ df[i].notes = rows[i].notes
    /\ (prog = "pure" /\ pc \in {"flattened", "displayed"}) =>
          /\ rows = ClaimedSetRange(backend.seed, resp.lo + 1, resp.hi)
          /\ pc = "displayed" =>
                /\ Len(df) = Len(rows)
                /\ \A i \in 1 .. Len(df) :
                      /\ df[i].date = rows[i].date
                      /\ df[i].exercise = rows[i].exercise
                      /\ df[i].weight = rows[i].weight
                      /\ df[i].reps = rows[i].reps

\* three pages of the crawler are shown: rows of workouts 200 and 201 are
\* neighbours, and two sets of one exercise follow each other
C8_Witness ==
    /\ prog = "crawler1"
    /\ backend.kind = "store"
    /\ pc = "displayed"
    /\ PageSizes = <<200, 200, 73>>
    /\ RowId(Len(rows)) = 473
    /\ \E i \in 1 .. Len(rows) - 1 : RowId(i) = 200 /\ RowId(i + 1) = 201
    /\ \E i \in 1 .. Len(rows) - 1 :
          /\ RowId(i) = RowId(i + 1)
          /\ rows[i].exercise = rows[i + 1].exercise
          /\ rows[i].weight # rows[i + 1].weight

----------------------------------------------------------------------------
(* C9: in the row filter of utils.fetch_workout_data and in                *)
(* create_workout_df of main.py a set whose time or distance is not null   *)
(* never produces a row, whatever the value (0 and "" included): the table *)
(* has exactly one row per set whose time and distance are both null.      *)

Cardio(s) == Get(s.time) # None \/ Get(s.distance) # None

\* sets of w with neither a time nor a distance
StrengthSets(w) ==
    {t \in SetPositions(w) : ~Cardio(w.exercises[t[1]].sets[t[2]])}

RECURSIVE StrengthCount(_, _, _)
StrengthCount(seed, a, b) ==
    IF a > b THEN 0
    ELSE IF a = b THEN Cardinality(StrengthSets(Workout(seed, a)))
    ELSE LET m == (a + b) \div 2
         IN StrengthCount(seed, a, m) + StrengthCount(seed, m + 1, b)

\* a row that can only stem from the set s of the exercise called name
RowOf(r, name, s) ==
    r.exercise = name /\ r.weight = Get(s.weight) /\ r.Reps = Get(s.reps)

C9_CardioSetsNeverMakeRows ==
    /\ (prog = "utils" /\ pc = "returned" /\ AllOk) =>
          /\ Len(df) = StrengthCount(backend.seed, 1, backend.n)
          /\ \A i \in 1 .. Len(df) :
                /\ ~RowOf(df[i], Str("Squat"), Timed)
                /\ ~RowOf(df[i], Str("Deadlift"), TimedZero)
                /\ ~RowOf(df[i], Str("Deadlift"), DistanceEmpty)
    /\ (prog = "main" /\ pc = "displayed") =>
          /\ Len(df) = StrengthCount(backend.seed, 1, backend.n)
          /\ \A i \in 1 .. Len(df) :
                /\ ~RowOf(df[i], Str("Squat"), Timed)
                /\ ~RowOf(df[i], Str("Deadlift"), TimedZero)
                /\ ~RowOf(df[i], Str("Deadlift"), DistanceEmpty)

----------------------------------------------------------------------------
(* C10: in the main.py enrichment chain a set that carries a time or a     *)
(* distance is left out of every strength metric: the one_rep_max,         *)
(* volume_raw, volume_relative and volume_heavy of its exercise are what   *)
(* they are without that set, and the set itself gets no RIR.              *)

WithoutCardio(data) ==
    [i \in 1 .. Len(data) |->
        [data[i] EXCEPT !.exercises =
            [e \in 1 .. Len(data[i].exercises) |->
                [data[i].exercises[e] EXCEPT !.sets =
                    SelectSeq(data[i].exercises[e].sets, LAMBDA s : ~Cardio(s))]]]]

Enriched(data) ==
    enrich_workouts_with_heavy_volume(
        enrich_workouts_with_volume(
            enrich_workouts_with_rir(
                enrich_workouts_with_1rm(
                    enrich_workouts_with_bodyweight_load(data)))))

C10_CardioSetsOutOfMetrics ==
    (prog = "main" /\ pc \in {"enriched", "displayed"}) =>
        LET ref == Enriched(WithoutCardio(Data(backend, [lo |-> 0, hi |-> backend.n])))
        IN \A i \in 1 .. Len(raw_data) :
             \A e \in 1 .. Len(raw_data[i].exercises) :
                LET ex == raw_data[i].exercises[e]
                    rx == ref[i].exercises[e]
                IN /\ ex.one_rep_max = rx.one_rep_max
                   /\ ex.volume_raw = rx.volume_raw
                   /\ ex.volume_relative = rx.volume_relative
                   /\ ex.volume_heavy = rx.volume_heavy
                   /\ \A k \in 1 .. Len(ex.sets) :
                         Cardio(ex.sets[k]) => Get(ex.sets[k].RIR) = None

----------------------------------------------------------------------------
(* The tables with an estimated 1RM: crawler1.py, pure.py, notsimple.py.   *)

Estimating == prog \in {"crawler1", "pure", "notsimple"}

\* e is x rounded to one decimal, x = n / 10000 hundredths of a kilogram
RoundsToOneDecimal(e, n) ==
    /\ e[1] = "num"
    /\ e[2] % 10 = 0
    /\ e[2] * 10000 - n <= 50000
    /\ n - e[2] * 10000 <= 50000

\* ((reps + 29) * 3.33 * (w + w_i)) / 100 - w_i, times 10000
EpleyTimes10000(reps, w, w_i) == (reps + 29) * 333 * (w + w_i) - 10000 * w_i

\* an exception ends a run only when a request fails
RaisedOnlyByFetch == pc = "raised" => (LastFailed \/ resolved.kind = "raised")

----------------------------------------------------------------------------
(* C12: in the table of pure.py every row with reps > 0 and a known        *)
(* internal load w_i has est_1RM = ((reps + 29) * 3.33 * (w + w_i)) / 100  *)
(* - w_i rounded to one decimal, w being the row's weight or 0 when the    *)
(* weight is missing; a row with reps <= 0 has the missing-value marker.   *)
C12_EstimateIsEpley3 ==
    (prog = "pure" /\ pc = "displayed") =>
        \A i \in 1 .. Len(df) :
           LET reps == df[i].reps
               w_i == df[i].internal_weight
               w == IF IsNa(df[i].weight) THEN 0 ELSE df[i].weight[2]
           IN /\ (~IsNa(reps) /\ reps[2] > 0 /\ ~IsNa(w_i))
                    => RoundsToOneDecimal(df[i].est_1RM,
                                          EpleyTimes10000(reps[2], w, w_i[2]))
              /\ (~IsNa(reps) /\ reps[2] <= 0) => df[i].est_1RM = None

\* Squat at bodyweight 80: 60 kg for 10 is estimated at 92.3, 100 kg for
\* 0 reps at nothing; Pull Ups without weight for 8 at 18.6
C12_Witness ==
    /\ prog = "pure"
    /\ pc = "displayed"
    /\ \E i \in 1 .. Len(df) :
          /\ df[i].weight = Kg(60) /\ df[i].reps = Num(10)
          /\ df[i].internal_weight = Kg(48) /\ df[i].est_1RM = Num(9230)
    /\ \E i \in 1 .. Len(df) :
          /\ df[i].reps = Num(0) /\ df[i].internal_weight = Kg(48)
          /\ df[i].est_1RM = None
    /\ \E i \in 1 .. Len(df) :
          /\ df[i].weight = None /\ df[i].reps = Num(8)
          /\ df[i].internal_weight = Kg(80) /\ df[i].est_1RM = Num(1860)

----------------------------------------------------------------------------
(* C13: in main.py an exercise whose reference entry has a null bodyweight *)
(* fraction, or whose name has no reference entry, keeps bodyweight        *)
(* fraction and internal_load missing after                                *)
(* enrich_workouts_with_bodyweight_load, and after                         *)
(* enrich_workouts_with_1rm the exercise and all its sets have a missing   *)
(* one_rep_max.                                                            *)

\* names, trimmed and in lower case, whose reference entry has a fraction
KnownFractions == {"squat", "bench press", "pull ups", "deadlift"}

UnknownFraction(ex) == Norm(Get(ex.exercise_name)) \notin KnownFractions

AfterBodyweightLoad ==
    prog = "main" /\ pc \in {"1rm", "rir", "volume", "heavy_volume", "enriched", "displayed"}

After1rm ==
    prog = "main" /\ pc \in {"rir", "volume", "heavy_volume", "enriched", "displayed"}

C13_UnknownFractionStaysMissing ==
    \A i \in 1 .. Len(raw_data) :
       \A e \in 1 .. Len(raw_data[i].exercises) :
          LET ex == raw_data[i].exercises[e] IN
          UnknownFraction(ex) =>
             /\ AfterBodyweightLoad =>
                   /\ IsNa(ex.bodyweight_p)
                   /\ IsNa(ex.internal_load)
             /\ After1rm =>
                   /\ IsNa(ex.one_rep_max)
                   /\ \A k \in 1 .. Len(ex.sets) : IsNa(ex.sets[k].one_rep_max)

----------------------------------------------------------------------------
(* C14: the main.py enrichment chain raises for no fetched batch, whatever *)
(* bodyweight, weight or reps is null or absent in it: a run of main.py    *)
(* ends by an exception only when nothing was fetched, and in an enriched  *)
(* batch a set without weight or reps has a missing one_rep_max and RIR.   *)
C14_ChainNeverRaises ==
    prog = "main" =>
        /\ pc = "raised" => raw_data = <<>>
        /\ pc \in {"enriched", "displayed"} =>
              \A i \in 1 .. Len(raw_data) :
                 \A e \in 1 .. Len(raw_data[i].exercises) :
                    \A k \in 1 .. Len(raw_data[i].exercises[e].sets) :
                       LET s == raw_data[i].exercises[e].sets[k] IN
                       (IsNa(s.weight) \/ IsNa(s.reps)) =>
                           IsNa(s.one_rep_max) /\ IsNa(s.RIR)

----------------------------------------------------------------------------
(* C15: the lookup of an exercise name in the reference table ignores case *)
(* and surrounding blanks, in pure.add_bw_pct_and_1rm and in               *)
(* main.enrich_workouts_with_bodyweight_load alike: exercises whose names  *)
(* agree once trimmed and in lower case get the same bodyweight fraction.  *)

\* the (name in lower case, fraction) pairs of the pure.py table
TableFractions == {<<Norm(df[i].exercise), df[i].bw_pct>> : i \in 1 .. Len(df)}

\* the same pairs of the exercises main.py enriched
BatchFractions ==
    UNION { {<<Norm(Get(raw_data[i].exercises[e].exercise_name)),
               raw_data[i].exercises[e].bodyweight_p>> :
                e \in 1 .. Len(raw_data[i].exercises)} : i \in 1 .. Len(raw_data) }

\* no name occurs with two fractions
OneFractionPerName(pairs) ==
    Cardinality(pairs) = Cardinality({p[1] : p \in pairs})

C15_NameLookupIgnoresCase ==
    /\ (prog = "pure" /\ pc = "displayed") => OneFractionPerName(TableFractions)
    /\ AfterBodyweightLoad => OneFractionPerName(BatchFractions)

----------------------------------------------------------------------------
(* C16: main.py, end to end: a workout with bodyweight 80 and the one      *)
(* exercise "Pull Ups" with the one set {weight: 0, reps: 8} gets          *)
(* internal_load 80, and the set and the exercise get the estimated 1RM    *)
(* ((8 + 29) * 3.33 * (0 + 80)) / 100 - 80 = 18.568 after rounding.        *)

PullUpsScenario(w) ==
    /\ w.bodyweight = Kg(80)
    /\ Len(w.exercises) = 1
    /\ w.exercises[1].exercise_name = Str("Pull Ups")
    /\ Len(w.exercises[1].sets) = 1
    /\ w.exercises[1].sets[1].weight = Kg(0)
    /\ w.exercises[1].sets[1].reps = Num(8)

\* v is a number within 0.05 kg of n / 10000 hundredths of a kilogram
Rounded(v, n) ==
    /\ v[1] = "num"
    /\ v[2] * 10000 - n <= 50000
    /\ n - v[2] * 10000 <= 50000

C16_PullUpsEndToEnd ==
    \A i \in 1 .. Len(raw_data) :
       PullUpsScenario(raw_data[i]) =>
          LET ex == raw_data[i].exercises[1] IN
          /\ AfterBodyweightLoad => ex.internal_load = Kg(80)
          /\ After1rm =>
                /\ Rounded(ex.sets[1].one_rep_max, EpleyTimes10000(8, 0, 8000))
                /\ Rounded(ex.one_rep_max, EpleyTimes10000(8, 0, 8000))

----------------------------------------------------------------------------
(* C17, as stated: for every reps > 0, weight >= 0 and internal load       *)
(* w_i >= 0, weight = 0 with w_i = 0 included,                             *)
(* epley3_reps(weight, epley3_record(weight, reps, w_i), w_i) is defined   *)
(* and equals reps up to the rounding.                                     *)

RoundTripDone == prog = "epley3" /\ pc = "returned"

\* the distance of a and b
Dist(a, b) == IF a < b THEN b - a ELSE a - b

\* max_reps is within 0.005 reps, plus what 0.005 kg of 1RM make in reps at
\* this load (0.5 / (3.33 * (w + w_i))), of reps.  In hundredths of a rep
\* and of a kilogram: d <= 1/2 + 500000 / (333 * (w + w_i))
WithinRounding ==
    /\ call.max_reps # None
    /\ LET d == Dist(call.max_reps[2], 100 * call.reps[2])
       IN d = 0 \/ 333 * (call.w[2] + call.w_i[2]) <= 1000000 \div (2 * d - 1)

C17_RoundTripEverywhere == RoundTripDone => WithinRounding

(* C17, amended: the round trip is defined and returns reps up to the      *)
(* rounding whenever weight + w_i > 0; for weight = 0 with w_i = 0 the     *)
(* estimated 1RM is 0 and epley3_reps returns None.                        *)
C17_RoundTripAbovezero ==
    RoundTripDone =>
        IF call.w[2] + call.w_i[2] > 0
        THEN WithinRounding
        ELSE call.w_rec = Num(0) /\ call.max_reps = None

\* 60 kg for 10 at internal load 48 kg: 1RM 92.26, and 10.0 reps back
C17_Witness ==
    /\ RoundTripDone
    /\ call.w = Kg(60) /\ call.reps = Num(10) /\ call.w_i = Kg(48)
    /\ call.w_rec = Num(9226)
    /\ call.max_reps = Num(1000)

----------------------------------------------------------------------------
(* C18: after main.enrich_workouts_with_rir every set has RIR = (the reps  *)
(* epley3_reps gives for its weight, its exercise's best 1RM and internal  *)
(* load) - (its reps), to two decimals; RIR is missing (absent or None)    *)
(* whenever the set's weight or reps, the exercise's 1RM or its internal   *)
(* load is missing or weight + internal load = 0; the stage never raises.  *)

AfterRir == prog = "main" /\ pc \in {"volume", "heavy_volume", "enriched", "displayed"}

\* the RIR claimed for the set s of the exercise ex
ClaimedRir(ex, s) ==
    IF \/ IsNa(s.weight) \/ IsNa(s.reps)
       \/ IsNa(ex.one_rep_max) \/ IsNa(ex.internal_load)
    THEN None
    ELSE IF s.weight[2] + ex.internal_load[2] = 0 THEN None
    ELSE Num(epley3_reps(s.weight[2], ex.one_rep_max[2], ex.internal_load[2])[2]
               - 100 * s.reps[2])

C18_RirOfEverySet ==
    /\ AfterRir =>
          \A i \in 1 .. Len(raw_data) :
             \A e \in 1 .. Len(raw_data[i].exercises) :
                \A k \in 1 .. Len(raw_data[i].exercises[e].sets) :
                   LET ex == raw_data[i].exercises[e]
                   IN Get(ex.sets[k].RIR) = ClaimedRir(ex, ex.sets[k])
    /\ (prog = "main" /\ pc = "raised") =>
          \A i \in 1 .. Len(raw_data) :
             \A e \in 1 .. Len(raw_data[i].exercises) :
                raw_data[i].exercises[e].one_rep_max = Absent

----------------------------------------------------------------------------
(* C19: main.enrich_workouts_with_volume sets volume_raw to the sum of     *)
(* weight * reps over exactly the sets that have both (a set missing       *)
(* either adds 0 and raises nothing; sets (100,5), (None,5), (100,None)    *)
(* give 500), and volume_relative to that sum / (0.8 * best 1RM) when the  *)
(* best 1RM is positive, else 0.                                           *)

AfterVolume == prog = "main" /\ pc \in {"heavy_volume", "enriched", "displayed"}

HasBoth(s) == ~IsNa(s.weight) /\ ~IsNa(s.reps)

\* sum of weight * reps over the sets with index in K
RECURSIVE SumOver(_, _)
SumOver(sets, K) ==
    IF K = {} THEN 0
    ELSE LET k == CHOOSE k \in K : TRUE
         IN sets[k].weight[2] * sets[k].reps[2] + SumOver(sets, K \ {k})

ClaimedVolume(ex) == SumOver(ex.sets, {k \in 1 .. Len(ex.sets) : HasBoth(ex.sets[k])})

BestOneRm(ex) == IF IsNa(ex.one_rep_max) THEN 0 ELSE ex.one_rep_max[2]

Exercises ==
    UNION {{raw_data[i].exercises[e] : e \in 1 .. Len(raw_data[i].exercises)} :
              i \in 1 .. Len(raw_data)}

\* the claim as stated: volume_relative is the quotient itself
C19_VolumeIsExactQuotient ==
    AfterVolume =>
       \A ex \in Exercises :
          /\ ex.volume_raw = Num(ClaimedVolume(ex))
          /\ IF BestOneRm(ex) > 0
             THEN ex.volume_relative[2] * BestOneRm(ex) = 1250 * ClaimedVolume(ex)
             ELSE ex.volume_relative = Num(0)

\* amended: volume_relative is the quotient rounded to three decimals
C19_VolumeIsRoundedQuotient ==
    /\ AfterVolume =>
          \A ex \in Exercises :
             /\ ex.volume_raw = Num(ClaimedVolume(ex))
             /\ IF BestOneRm(ex) > 0
                THEN 2 * Dist(ex.volume_relative[2] * BestOneRm(ex), 1250 * ClaimedVolume(ex))
                        <= BestOneRm(ex)
                ELSE ex.volume_relative = Num(0)
    /\ (prog = "main" /\ pc = "raised") => \A ex \in Exercises : ex.volume_raw = Absent

\* the three sets of the example give 500, and 500 / (0.8 * 113.22) = 5.520
C19_Witness ==
    /\ AfterVolume
    /\ \E ex \in Exercises :
          /\ Len(ex.sets) = 3
          /\ ex.sets[1].weight = Kg(100) /\ ex.sets[1].reps = Num(5)
          /\ ex.sets[2].weight = None /\ ex.sets[2].reps = Num(5)
          /\ ex.sets[3].weight = Kg(100) /\ ex.sets[3].reps = None
          /\ ex.one_rep_max = Num(11322)
          /\ ex.volume_raw = Num(50000)
          /\ ex.volume_relative = Num(5520)

----------------------------------------------------------------------------
(* C20: main.enrich_workouts_with_heavy_volume sets volume_heavy to the    *)
(* sum over the sets of 2 * reps when weight > 0.93 * (1RM + w_i) - w_i,   *)
(* reps when weight > 0.85 * (1RM + w_i) - w_i but not above the 93%       *)
(* threshold, 0 otherwise, each set in exactly one tier; volume_heavy is   *)
(* the explicit value 0 whenever the 1RM is unknown or not positive.       *)

AfterHeavyVolume == prog = "main" /\ pc \in {"enriched", "displayed"}

\* a missing weight or reps count as 0, as everywhere in the chain
Weight(s) == IF IsNa(s.weight) THEN 0 ELSE s.weight[2]

Reps(s) == IF IsNa(s.reps) THEN 0 ELSE s.reps[2]

\* weight > fraction * (1RM + w_i) - w_i, with fraction in hundredths
Above(s, fraction, ex) ==
    100 * (Weight(s) + ex.internal_load[2])
       > fraction * (ex.one_rep_max[2] + ex.internal_load[2])

Tier93(ex) == {k \in 1 .. Len(ex.sets) : Above(ex.sets[k], 93, ex)}

Tier85(ex) == {k \in 1 .. Len(ex.sets) : Above(ex.sets[k], 85, ex)} \ Tier93(ex)

RECURSIVE RepsOver(_, _)
RepsOver(sets, K) ==
    IF K = {} THEN 0
    ELSE LET k == CHOOSE k \in K : TRUE
         IN Reps(sets[k]) + RepsOver(sets, K \ {k})

C20_HeavyVolumeTiers ==
    AfterHeavyVolume =>
       \A ex \in Exercises :
          IF BestOneRm(ex) > 0
          THEN ex.volume_heavy
                  = Num(2 * RepsOver(ex.sets, Tier93(ex)) + RepsOver(ex.sets, Tier85(ex)))
          ELSE ex.volume_heavy = Num(0)

\* an exercise with a set in each tier (4 + 5 + 0 points), one whose 1RM is
\* unknown and one whose 1RM is negative
C20_Witness ==
    /\ AfterHeavyVolume
    /\ \E ex \in Exercises :
          /\ BestOneRm(ex) > 0
          /\ Tier93(ex) # {} /\ Tier85(ex) # {}
          /\ Tier93(ex) \cup Tier85(ex) # 1 .. Len(ex.sets)
          /\ ex.volume_heavy = Num(9)
    /\ \E ex \in Exercises : ex.one_rep_max = None /\ ex.volume_heavy = Num(0)
    /\ \E ex \in Exercises :
          /\ ex.one_rep_max # None /\ ex.one_rep_max[2] < 0
          /\ ex.volume_heavy = Num(0)

----------------------------------------------------------------------------
(* What the resolver claims say about a page, stated on the entries.       *)

\* the entry is an object whose request targets the workouts API and whose
\* params carry a non-empty user_id
Usable(e) ==
    /\ IsDict(e)
    /\ e[2].request # Absent /\ IsDict(e[2].request)
    /\ e[2].request[2].url = WORKOUTS_URL
    /\ e[2].request[2].params # Absent /\ IsDict(e[2].request[2].params)
    /\ Truthy(e[2].request[2].params[2].user_id)

UserIdOf(e) == e[2].request[2].params[2].user_id

\* not an object, or its request is null, or the params of its workouts
\* request are null
IllFormed(e) ==
    \/ ~IsDict(e)
    \/ e[2].request = None
    \/ /\ e[2].request # Absent
       /\ e[2].request[2].url = WORKOUTS_URL
       /\ e[2].request[2].params = None

UsableAt == {k \in 1 .. Len(page.prefill) : Usable(page.prefill[k])}

FirstUsable == CHOOSE k \in UsableAt : \A j \in UsableAt : k <= j

Called(f) == prog = f /\ pc # "call"

C22_IdOnlyFromWorkoutsEntry ==
    (Called("fetch_user_id") /\ resolved.kind = "returned") =>
       \E k \in UsableAt : resolved.value = UserIdOf(page.prefill[k])

(* C23: for every page parse_prefill_for_user_id returns an account id or  *)
(* fails with one of three distinct parse errors (data missing, malformed  *)
(* JSON, id not found); no other exception escapes, also not for entries   *)
(* that are not objects or whose request or params is null.                *)
ParseErrors ==
    { "prefill JSON not found in page",
      "failed to parse prefill JSON",
      "user_id not found in prefill JSON" }

C23_FourOutcomes ==
    Called("parse_prefill_for_user_id") =>
       \/ resolved.kind = "returned" /\ Truthy(resolved.value)
       \/ /\ resolved.kind = "raised"
          /\ resolved.error = "ValueError"
          /\ resolved.message \in ParseErrors
          /\ resolved.message = "prefill JSON not found in page" <=> page.kind = "nomatch"
          /\ resolved.message = "failed to parse prefill JSON" <=> page.kind = "badjson"

----------------------------------------------------------------------------
(* C24: when the resolver step fails (the profile page request fails or    *)
(* the account id cannot be parsed) the run is aborted before the fetcher: *)
(* no request to the workouts API is issued in that run and no rows are    *)
(* produced; safe_fetch_rows returns no rows and an error, crawler1.py     *)
(* ends the script.                                                        *)

Resolving == prog \in {"crawler1", "notsimple"}

ResolverFailed == Resolving /\ resolved.kind \in {"stopped", "raised"}

C24_ResolverFailureAborts ==
    /\ (Resolving /\ resolved.kind # "returned") =>
          /\ requests = <<>>
          /\ resp = NoResp
          /\ rows = <<>>
          /\ df = <<>>
    /\ ResolverFailed =>
          /\ pc \in {"stopped", "raised"}
          /\ prog = "notsimple" => (pc = "stopped" /\ resolved.message # "")

\* safe_fetch_rows on a page without a usable entry
C24_Witness ==
    /\ prog = "notsimple"
    /\ resolved = Stopped("user_id not found in prefill JSON")
    /\ pc = "stopped"
    /\ requests = <<>>
    /\ rows = <<>>

(* C25: safe_fetch_rows never raises and its result tells three outcomes   *)
(* apart: rows with no error, no rows with no error (no data), and for     *)
(* every failure no rows with a message the caller's `if error_message`    *)
(* test takes as an error, so that a failed fetch is never shown as        *)
(* "No workouts found".                                                    *)

FetchFailed == prog = "notsimple" /\ (resolved.kind = "stopped" \/ LastFailed)

C25_ThreeOutcomesKeptApart ==
    prog = "notsimple" =>
       /\ pc # "raised"
       /\ resolved.kind # "raised"
       /\ FetchFailed =>
             /\ pc = "stopped"
             /\ rows = <<>>
             /\ Len(msgs) = 1
             /\ msgs[1] \notin {"", "No workouts found."}
       /\ (pc = "stopped" /\ ~FetchFailed) =>
             /\ rows = <<>>
             /\ msgs = <<"No workouts found.">>
             /\ resolved.kind = "returned"
             /\ requests # <<>> /\ AllOk
       /\ pc = "displayed" =>
             /\ rows # <<>>
             /\ msgs = <<>>
             /\ ~FetchFailed

\* the account id was found and the workouts request failed
C25_Witness ==
    /\ prog = "notsimple"
    /\ resolved.kind = "returned"
    /\ LastFailed
    /\ pc = "stopped"
    /\ msgs = <<"Network error">>

----------------------------------------------------------------------------
(* C26: after main.enrich_workouts_with_1rm each exercise's one_rep_max is *)
(* the maximum of the estimated 1RMs of its sets: no set's one_rep_max     *)
(* exceeds it, some set attains it, and it is missing exactly when none of *)
(* the sets has a defined estimate.                                        *)

Estimated(ex) == {k \in 1 .. Len(ex.sets) : ~IsNa(ex.sets[k].one_rep_max)}

C26_ExerciseMaxOverSets ==
    After1rm =>
       \A ex \in Exercises :
          /\ IsNa(ex.one_rep_max) <=> Estimated(ex) = {}
          /\ ex.one_rep_max # Absent
          /\ \A k \in Estimated(ex) : ex.sets[k].one_rep_max[2] <= ex.one_rep_max[2]
          /\ Estimated(ex) # {} =>
                \E k \in Estimated(ex) : ex.sets[k].one_rep_max = ex.one_rep_max

\* the first of two estimated sets is the best one; another exercise of the
\* batch has no estimated set
C26_Witness ==
    /\ After1rm
    /\ \E ex \in Exercises :
          /\ Estimated(ex) = {1, 2}
          /\ ex.sets[1].one_rep_max = Num(11322)
          /\ ex.sets[2].one_rep_max = Num(7792)
          /\ ex.one_rep_max = Num(11322)
    /\ \E ex \in Exercises :
          /\ ex.sets # <<>>
          /\ Estimated(ex) = {}
          /\ ex.one_rep_max = None

----------------------------------------------------------------------------
(* C27: fetched records are immutable through enrichment.  No stage of the *)
(* main.py chain changes a fetched field (workout date and bodyweight,     *)
(* exercise_name, set weight, reps, notes, dropset, percentile), removes a *)
(* record or reorders workouts, exercises or sets; a stage writes only its *)
(* own derived fields and leaves those of the other stages as they are.    *)

\* the exercise fields and the set fields a stage may write
ExerciseWrites(stage) ==
    CASE stage = "bodyweight_load" ->
            {"bodyweight_p", "bodyweight_load", "equipment_weight", "internal_load"}
      [] stage = "1rm" -> {"one_rep_max"}
      [] stage = "volume" -> {"volume_raw", "volume_relative"}
      [] stage = "heavy_volume" -> {"volume_heavy"}
      [] OTHER -> {}

SetWrites(stage) ==
    CASE stage = "1rm" -> {"one_rep_max"}
      [] stage = "rir" -> {"RIR", "max_reps"}
      [] OTHER -> {}

SameBut(old, new, fields) ==
    /\ DOMAIN new = DOMAIN old
    /\ \A f \in DOMAIN old \ fields : new[f] = old[f]

StageFrame(stage, old, new) ==
    /\ Len(new) = Len(old)
    /\ \A i \in 1 .. Len(old) :
          /\ SameBut(old[i], new[i], {"exercises"})
          /\ Len(new[i].exercises) = Len(old[i].exercises)
          /\ \A e \in 1 .. Len(old[i].exercises) :
                LET ex == old[i].exercises[e]
                    ex2 == new[i].exercises[e]
                IN /\ SameBut(ex, ex2, ExerciseWrites(stage) \cup {"sets"})
                   /\ Len(ex2.sets) = Len(ex.sets)
                   /\ \A k \in 1 .. Len(ex.sets) :
                         SameBut(ex.sets[k], ex2.sets[k], SetWrites(stage))

C27_StagesOnlyAddTheirFields ==
    [][ (prog = "main" /\ pc # "request") => StageFrame(pc, raw_data, raw_data') ]_vars

\* the whole chain has run over a batch: every stage has written its
\* fields, and an exercise name with a trailing blank is still as fetched
C27_Witness ==
    /\ prog = "main"
    /\ pc = "enriched"
    /\ \E ex \in Exercises :
          /\ ex.exercise_name = Str("BENCH PRESS ")
          /\ ex.internal_load # Absent
          /\ ex.one_rep_max = Num(11322)
          /\ ex.sets[1].RIR = Num(0)
          /\ ex.volume_raw = Num(50000)
          /\ ex.volume_heavy = Num(5)

----------------------------------------------------------------------------
(* C28: the offsets of the page requests.                                  *)

\* the programs with an offset loop of fixed page size 200
OffsetLoops == {"crawler1", "utils"}

\* C28: in crawler1.py and in utils.fetch_workout_data the k-th page request
\* carries offset (k-1)*200 and limit 200, so the offsets increase strictly
\* and none is requested twice; a request that failed is the last request
\* of the run, it is never issued again.
C28_OffsetsAdvanceByLimit ==
    prog \in OffsetLoops =>
        /\ \A k \in 1 .. Len(requests) :
              /\ requests[k].limit = 200
              /\ requests[k].offset = (k - 1) * 200
              /\ requests[k].kind # "ok" => k = Len(requests)
        /\ \A j, k \in 1 .. Len(requests) :
              j < k => requests[j].offset < requests[k].offset

\* the third page of a run failed after two full pages
C28_Witness ==
    /\ prog \in OffsetLoops
    /\ pc \in {Break, "raised", "done", "displayed"}
    /\ Len(requests) = 3
    /\ requests[1].size = 200
    /\ requests[2].size = 200
    /\ requests[3].offset = 400
    /\ requests[3].kind = "neterr"

----------------------------------------------------------------------------
(* C29: the fetch gate across the reruns of one session.                   *)

\* the selection of run k differs from the selection of the run before it
SelectionChanged(k) ==
    session.runs[k].selected_name # session.runs[k - 1].selected_name

\* C29: within one session of crawler1.py the fetch-and-render block runs on
\* the first run and on every run whose selected name differs from the name
\* of the run before it, and on no other run; after every run
\* st.session_state.last_selected_person is the name selected in that run.
C29_FetchOnFirstRunAndOnChange ==
    (prog = "crawler1" /\ pc = "rerun") =>
        /\ \A k \in 1 .. Len(session.runs) :
              session.runs[k].should_fetch <=> (k = 1 \/ SelectionChanged(k))
        /\ Len(session.runs) > 0 =>
              session.last_selected_person
                  = Str(session.runs[Len(session.runs)].selected_name)
        /\ Len(session.runs) = 0 => session.last_selected_person = Absent

\* four runs: a first one, the same name again, another name, that name again
C29_Witness ==
    /\ prog = "crawler1"
    /\ pc = "rerun"
    /\ Len(session.runs) = 4
    /\ session.runs[1].selected_name = "dzuljeta"
    /\ session.runs[2].selected_name = "dzuljeta"
    /\ session.runs[3].selected_name = "mantas"
    /\ session.runs[4].selected_name = "mantas"
    /\ session.runs[1].should_fetch
    /\ ~session.runs[2].should_fetch
    /\ session.runs[3].should_fetch
    /\ ~session.runs[4].should_fetch
    /\ session.last_selected_person = Str("mantas")

----------------------------------------------------------------------------
(* C30: the sign of RIR and the RIR of the best set.                       *)

\* the sets of ex that enter the chain: weight > 0 and reps > 0
Worked(ex) ==
    {k \in 1 .. Len(ex.sets) :
        /\ ~IsNa(ex.sets[k].weight) /\ ex.sets[k].weight[2] > 0
        /\ ~IsNa(ex.sets[k].reps) /\ ex.sets[k].reps[2] > 0}

\* the set k of ex carries a number as RIR
RirDefined(ex, k) == ex.sets[k].RIR # Absent /\ ~IsNa(ex.sets[k].RIR)

\* the set k of ex attains the one_rep_max of ex
AttainsBest(ex, k) ==
    /\ ~IsNa(ex.one_rep_max)
    /\ ex.sets[k].one_rep_max = ex.one_rep_max

\* C30: after the main.py chain every set with a defined RIR has RIR >= 0,
\* and a set that attains its exercise's one_rep_max has RIR exactly 0, for
\* every weight > 0, reps > 0 and internal load >= 0, in spite of the
\* rounding of the stored 1RM and of the predicted maximum reps.
C30_RirNonNegativeZeroAtBest ==
    AfterRir =>
       \A ex \in Exercises :
          (~IsNa(ex.internal_load) /\ ex.internal_load[2] >= 0) =>
             \A k \in Worked(ex) :
                /\ RirDefined(ex, k) => ex.sets[k].RIR[2] >= 0
                /\ AttainsBest(ex, k) => ex.sets[k].RIR = Num(0)

====
